---------------------------- MODULE Spec2Model ----------------------------
(***************************************************************************)
(* APOGEE Space Club cadet trials: the hub (streamlit_app.py), the mission *)
(* game (pages/mission_game.py) and the quiz game (pages/quiz_game.py).    *)
(*                                                                         *)
(* One browser session is modelled.  Every action is one run of a page     *)
(* script, top to bottom, for one widget event (or none).  A run that ends *)
(* in st.rerun() or st.switch_page() leaves the next run pending: that run *)
(* is a step of its own, it reads the clock again, and no widget event is  *)
(* taken before it.  Clock readings (time.time()) are whole seconds.       *)
(***************************************************************************)
EXTENDS Integers, Sequences, FiniteSets, TLC

VARIABLES
    script,         \* the page script the browser shows: "hub", "mission", "quiz"
    session_state,  \* st.session_state: a mapping from key to value
    now,            \* the wall clock, in seconds
    lb_file,        \* leaderboard.json, the local leaderboard document
    sink,           \* the response spreadsheet: one worksheet per game
    sheet,          \* the hub's "Leaderboard" worksheet: its records
    board,          \* the leaderboard lists on screen (none on any other page)
    crashed,        \* the last script run ended in an uncaught exception
    pending,        \* the last script run ended in st.rerun() or st.switch_page():
                    \* the script runner is about to start the next run
    last_call,      \* a note of the last form submitted, of the last function
                    \* called directly with its result, of a click that
                    \* arrived after the mission deadline, or of a reset
    session_io,     \* bookkeeping: game sessions still to create, failed writes,
                    \* what the present game session has written so far, and
                    \* whether its learner has touched an answer control
    writers         \* other browser sessions inside add_score: where each is,
                    \* the document it loaded, and the order of their steps

vars == <<script, session_state, now, lb_file, sink, sheet, board, crashed, pending,
          last_call, session_io, writers>>

----------------------------------------------------------------------------
(* Bounds of the model *)

\* random.choice draws the mission among the first MissionDraws names
MissionDraws == 1
\* random.sample draws the button layout among the first Shuffles layouts
Shuffles == 1
\* random.sample draws the quiz questions among the first QuizDraws samples
QuizDraws == 1
\* writes of leaderboard.json that fail in one behaviour
MaxWriteFaults == 1
\* seconds that pass in one step of the clock
MaxEntries == 3
VariedRows == 3
MaxRows == 11
ClockStep == 15
\* steps of the clock in one behaviour
MaxTicks == 3

(* Program constants *)
MISSION_TIMER_SEC == 45
QUIZ_TIMER_SEC == 15
StepsPerMission == 6

----------------------------------------------------------------------------
(* Generic helpers *)

None == <<>>

Max(a, b) == IF a >= b THEN a ELSE b

\* d[k] = v, the key added when missing
SetKey(d, k, v) == [x \in DOMAIN d \cup {k} |-> IF x = k THEN v ELSE d[x]]

\* d.pop(k, None)
PopKey(d, k) == [x \in DOMAIN d \ {k} |-> d[x]]

\* str(n) of a non-negative integer: its decimal digits
RECURSIVE str(_)
str(n) == IF n < 10 THEN <<n>> ELSE Append(str(n \div 10), n % 10)

\* datetime.now().strftime(...): a fixed-width stamp, here three digits
strftime(t) == <<(t \div 100) % 10, (t \div 10) % 10, t % 10>>


----------------------------------------------------------------------------
(* The response sink (append_row_to_sheet of the two game pages) *)

\* How far one call of append_row_to_sheet gets before something fails:
\*   no_client        get_gspread_client returned None
\*   spreadsheet_fail client.open and client.create both raised
\*   worksheet_fail   sh.worksheet and sh.add_worksheet both raised
\*   header_fail      the new worksheet's header row could not be appended
\*   row_fail         ws.append_row(row) raised
\*   ok               the row was appended
SinkOutcomes ==
    {"no_client", "spreadsheet_fail", "worksheet_fail", "header_fail", "row_fail", "ok"}

EmptyWorksheet == [exists |-> FALSE, header |-> FALSE, rows |-> <<>>]

EmptySink == [Mission_Game |-> EmptyWorksheet, Quiz_Game |-> EmptyWorksheet]

get_gspread_client(outcome) == IF outcome = "no_client" THEN None ELSE <<"client">>

\* The worksheet `title` after append_row_to_sheet(row) got as far as `outcome`.
\* Every exception is caught inside, so the call always returns to the page.
append_row_to_sheet(sk, title, row, outcome) ==
    LET ws == sk[title] IN
    IF get_gspread_client(outcome) = None \/ outcome = "spreadsheet_fail"
          \/ outcome = "worksheet_fail"
    THEN sk
    ELSE LET opened ==
                 IF ws.exists THEN ws
                 ELSE [ws EXCEPT !.exists = TRUE, !.header = (outcome # "header_fail")]
         IN  IF outcome = "ok"
             THEN [sk EXCEPT ![title] = [opened EXCEPT !.rows = Append(ws.rows, row)]]
             ELSE [sk EXCEPT ![title] = opened]

----------------------------------------------------------------------------
(* The local leaderboard document (load_leaderboard, save_leaderboard and   *)
(* add_score of the game pages)                                            *)

GameKeys == {"mission_game", "quiz_game"}

\* What json.load returns is tagged with its Python type.
JsonList(entries) == [type |-> "list", elems |-> entries]
JsonDict(items) == [type |-> "dict", items |-> items]
JsonOther == [type |-> "other"]

EmptyLeaderboard ==
    JsonDict([k \in GameKeys |-> JsonList(<<>>)])

\* leaderboard.json: missing, not parsable, or holding a JSON value
FileMissing == [kind |-> "missing"]
FileUnparsable == [kind |-> "unparsable"]
FileJson(v) == [kind |-> "json", value |-> v]

load_leaderboard(file) ==
    IF file.kind = "missing" THEN EmptyLeaderboard
    ELSE IF file.kind = "json" THEN file.value
    ELSE EmptyLeaderboard

\* How a write of leaderboard.json ends: written, open() raised (the file is
\* untouched), or the dump raised after open() truncated the file.
WriteOutcomes == {"ok", "open_fail", "dump_fail"}

\* save_leaderboard of the game pages: no exception is caught.
save_leaderboard(file, data, outcome) ==
    IF outcome = "ok" THEN [file |-> FileJson(data), raised |-> FALSE]
    ELSE IF outcome = "open_fail" THEN [file |-> file, raised |-> TRUE]
    ELSE [file |-> FileUnparsable, raised |-> TRUE]

LeaderboardEntry(name, branch, nickname, score, t) ==
    [name |-> name, branch |-> branch, nickname |-> nickname, score |-> score,
     time |-> strftime(t)]

\* add_score: load, data.setdefault(game_key, []).append(entry), save.
\* setdefault raises on a value that is no dict, append on one that is no list.
add_score(file, game_key, name, branch, nickname, score, t, outcome) ==
    LET data == load_leaderboard(file)
        entry == LeaderboardEntry(name, branch, nickname, score, t)
    IN  IF data.type # "dict" THEN [file |-> file, raised |-> TRUE]
        ELSE LET slot == IF game_key \in DOMAIN data.items
                         THEN data.items[game_key] ELSE JsonList(<<>>)
             IN  IF slot.type # "list" THEN [file |-> file, raised |-> TRUE]
                 ELSE save_leaderboard(
                          file,
                          JsonDict(SetKey(data.items, game_key,
                                          JsonList(Append(slot.elems, entry)))),
                          outcome)

----------------------------------------------------------------------------
(* The leaderboard functions of utils/shared.py: the same file, its own     *)
(* load_leaderboard, save_leaderboard and add_score                         *)

shared_load_leaderboard(file) ==
    IF file.kind = "missing" THEN EmptyLeaderboard
    ELSE IF file.kind = "json" THEN file.value
    ELSE EmptyLeaderboard

\* save_leaderboard of utils/shared.py: the exception of a failing open() or
\* dump is caught and printed, and the call returns.
shared_save_leaderboard(file, data, outcome) ==
    IF outcome = "ok" THEN [file |-> FileJson(data), raised |-> FALSE]
    ELSE IF outcome = "open_fail" THEN [file |-> file, raised |-> FALSE]
    ELSE [file |-> FileUnparsable, raised |-> FALSE]

\* add_score of utils/shared.py: load, setdefault(game_key, []).append(entry),
\* save.  setdefault and append are outside the try of save_leaderboard.
shared_add_score(file, game_key, name, branch, nickname, score, t, outcome) ==
    LET data == shared_load_leaderboard(file)
        entry == LeaderboardEntry(name, branch, nickname, score, t)
    IN  IF data.type # "dict" THEN [file |-> file, raised |-> TRUE]
        ELSE LET slot == IF game_key \in DOMAIN data.items
                         THEN data.items[game_key] ELSE JsonList(<<>>)
             IN  IF slot.type # "list" THEN [file |-> file, raised |-> TRUE]
                 ELSE shared_save_leaderboard(
                          file,
                          JsonDict(SetKey(data.items, game_key,
                                          JsonList(Append(slot.elems, entry)))),
                          outcome)

----------------------------------------------------------------------------
(* Mission data and timer *)

MissionNames == <<"Chandrayaan-2", "Apollo 11", "Gaganyaan">>

\* Step k of mission number m, in chronological order
StepLabel(m, k) == 10 * m + k

MISSIONS ==
    [n \in {MissionNames[m] : m \in 1..3} |->
        LET m == CHOOSE i \in 1..3 : MissionNames[i] = n
        IN  [steps_correct |-> [k \in 1..StepsPerMission |-> StepLabel(m, k)]]]

\* The button layouts random.sample is taken to return
Layouts == << <<6, 5, 4, 3, 2, 1>>, <<1, 2, 3, 4, 5, 6>>, <<2, 1, 4, 3, 6, 5>>,
              <<1, 2, 3, 4, 6, 5>> >>

random_sample(steps, j) == [i \in 1..Len(steps) |-> steps[Layouts[j][i]]]

seconds_left(start_time, duration, t) == Max(0, duration - (t - start_time))

\* A faulty membership test: no step is ever found in the sequence
NotInSeq(x, s) == FALSE

\* step in state["selected_sequence"]
InSeq(x, s) == \E i \in 1..Len(s) : s[i] = x

\* A faulty initial state: it is marked as saved already
NewMissionStateSaved(mission_name, j, t) ==
    [mission_name |-> mission_name,
     mission |-> MISSIONS[mission_name],
     options |-> random_sample(MISSIONS[mission_name].steps_correct, j),
     selected_sequence |-> <<>>,
     start_time |-> t,
     game_over |-> FALSE,
     score |-> 0,
     data_saved |-> TRUE]

\* st.session_state["mission_state"] as the page creates it
NewMissionState(mission_name, j, t) ==
    [mission_name |-> mission_name,
     mission |-> MISSIONS[mission_name],
     options |-> random_sample(MISSIONS[mission_name].steps_correct, j),
     selected_sequence |-> <<>>,
     start_time |-> t,
     game_over |-> FALSE,
     score |-> 0,
     data_saved |-> FALSE]

\* A faulty grading: against the shuffled layout the buttons were drawn in
MissionIsCorrectByLayout(st) == st.selected_sequence = st.options

\* is_correct of the results branch: always against the canonical list
MissionIsCorrect(st) == st.selected_sequence = st.mission.steps_correct

MissionRow(user, st, time_left, t) ==
    [timestamp |-> strftime(t), name |-> user.name, email |-> user.email,
     branch |-> user.branch, astronaut_name |-> user.astronaut_name,
     mission_name |-> st.mission_name,
     mission_correct |-> IF MissionIsCorrect(st) THEN "True" ELSE "False",
     time_left_seconds |-> str(time_left),
     user_sequence |-> IF st.selected_sequence # <<>>
                       THEN [joined |-> st.selected_sequence]
                       ELSE [literal |-> "No sequence"],
     correct_sequence |-> st.mission.steps_correct,
     score |-> str(st.score),
     notes |-> "Mission Game Completed"]


----------------------------------------------------------------------------
(* Text: a Python str is a sequence of one-character strings *)

UpperCase == <<"A", "B", "C", "D", "E", "F", "G", "H", "I", "J", "K", "L", "M",
               "N", "O", "P", "Q", "R", "S", "T", "U", "V", "W", "X", "Y", "Z">>
LowerCase == <<"a", "b", "c", "d", "e", "f", "g", "h", "i", "j", "k", "l", "m",
               "n", "o", "p", "q", "r", "s", "t", "u", "v", "w", "x", "y", "z">>
Digits == <<"0", "1", "2", "3", "4", "5", "6", "7", "8", "9">>

IndexIn(c, table) == IF \E i \in 1..Len(table) : table[i] = c
                     THEN CHOOSE i \in 1..Len(table) : table[i] = c ELSE 0

isupper(c) == IndexIn(c, UpperCase) > 0
islower(c) == IndexIn(c, LowerCase) > 0
isalpha(c) == isupper(c) \/ islower(c)
isspace(c) == c \in {" ", "\t"}

\* ord(c) for the characters the model uses
ord(c) == IF isupper(c) THEN 64 + IndexIn(c, UpperCase)
          ELSE IF islower(c) THEN 96 + IndexIn(c, LowerCase)
          ELSE IF IndexIn(c, Digits) > 0 THEN 47 + IndexIn(c, Digits)
          ELSE IF c = " " THEN 32
          ELSE IF c = "\t" THEN 9
          ELSE IF c = "-" THEN 45
          ELSE IF c = "." THEN 46
          ELSE 64  \* "@"

lower(c) == IF isupper(c) THEN LowerCase[IndexIn(c, UpperCase)] ELSE c
upper(c) == IF islower(c) THEN UpperCase[IndexIn(c, LowerCase)] ELSE c

RECURSIVE lstrip(_)
lstrip(s) == IF s # <<>> /\ isspace(Head(s)) THEN lstrip(Tail(s)) ELSE s

RECURSIVE rstrip(_)
rstrip(s) == IF s # <<>> /\ isspace(s[Len(s)])
             THEN rstrip(SubSeq(s, 1, Len(s) - 1)) ELSE s

strip(s) == rstrip(lstrip(s))

\* s.split()[0] of a string that holds a non-space character
RECURSIVE UntilSpace(_)
UntilSpace(s) == IF s = <<>> \/ isspace(Head(s)) THEN <<>>
                 ELSE <<Head(s)>> \o UntilSpace(Tail(s))

FirstToken(s) == UntilSpace(lstrip(s))

RECURSIVE OnlyAlpha(_)
OnlyAlpha(s) == IF s = <<>> THEN <<>>
                ELSE (IF isalpha(Head(s)) THEN <<Head(s)>> ELSE <<>>) \o OnlyAlpha(Tail(s))

capitalize(s) == [i \in 1..Len(s) |-> IF i = 1 THEN upper(s[i]) ELSE lower(s[i])]

\* A faulty sum: over the trimmed name
RECURSIVE SumOrdStripped(_)
SumOrdStripped(s) ==
    LET t == strip(s)
    IN  IF t = <<>> THEN 0 ELSE ord(Head(t)) + SumOrdStripped(Tail(t))

\* sum(ord(c) for c in s)
RECURSIVE SumOrd(_)
SumOrd(s) == IF s = <<>> THEN 0 ELSE ord(Head(s)) + SumOrd(Tail(s))

prefixes == << <<"Z", "a", "p">>, <<"N", "e", "o">>, <<"G", "e", "o">>,
               <<"V", "e", "x">>, <<"B", "l", "u">>, <<"Z", "e", "n">>,
               <<"P", "y", "r", "o">>, <<"Q", "u", "i", "p">>,
               <<"N", "o", "v", "a">>, <<"T", "i", "k", "i">> >>
suffixes == << <<"t", "r", "o", "n">>, <<"p", "o", "p">>, <<"b", "i", "t">>,
               <<"d", "o">>, <<"s", "t", "e", "r">>, <<"z", "o">>, <<"l", "y">>,
               <<"i", "x">>, <<"o">>, <<"a">> >>

\* Python lists are indexed from 0
generate_fun_nickname(name) ==
    LET token == IF strip(name) # <<>> THEN FirstToken(strip(name))
                 ELSE <<"C", "a", "d", "e", "t">>
        lowered == [i \in 1..Len(token) |-> lower(token[i])]
        alpha == OnlyAlpha(lowered)
        base == capitalize(SubSeq(alpha, 1, IF Len(alpha) < 5 THEN Len(alpha) ELSE 5))
        h == IF name # <<>> THEN SumOrd(name) ELSE 999
    IN  prefixes[(h % Len(prefixes)) + 1] \o base
            \o suffixes[((h \div Len(prefixes)) % Len(suffixes)) + 1]


----------------------------------------------------------------------------
(* The hub's leaderboard (load_leaderboard of streamlit_app.py and the      *)
(* leaderboard page)                                                       *)

\* The rows the leaderboard page lists per game
TopN == 10

\* A cell of the Score column as get_all_records returns it
IntCell(n) == [kind |-> "int", v |-> n]
EmptyCell == [kind |-> "empty"]

SheetRecord(game, nickname, name, branch, score, time) ==
    [Game |-> game, Nickname |-> nickname, Name |-> name, Branch |-> branch,
     Score |-> score, Time |-> time]

\* How far the hub's load_leaderboard gets: no client, a failed read of the
\* spreadsheet, or all records read
HubLoadOutcomes == {"no_client", "read_fail", "ok"}

EmptyBoardData == [mission_game |-> <<>>, quiz_game |-> <<>>]

RowEntry(row) ==
    [nickname |-> row.Nickname, name |-> row.Name, branch |-> row.Branch,
     score |-> row.Score.v, time |-> row.Time]

RECURSIVE RowsOf(_, _)
RowsOf(rows, game) ==
    IF rows = <<>> THEN <<>>
    ELSE (IF Head(rows).Game = game THEN <<RowEntry(Head(rows))>> ELSE <<>>)
             \o RowsOf(Tail(rows), game)

\* load_leaderboard of the hub: it reads the "Leaderboard" worksheet of the
\* spreadsheet, never leaderboard.json.  int() of an empty Score cell raises
\* inside the try, which returns the empty structure.
hub_load_leaderboard(rows, outcome) ==
    IF outcome # "ok" THEN EmptyBoardData
    ELSE IF \E i \in 1..Len(rows) : rows[i].Score.kind # "int" THEN EmptyBoardData
    ELSE [mission_game |-> RowsOf(rows, "mission_game"),
          quiz_game |-> RowsOf(rows, "quiz_game")]

\* a < b for Python strings
RECURSIVE StrLess(_, _)
StrLess(a, b) ==
    IF b = <<>> THEN FALSE
    ELSE IF a = <<>> THEN TRUE
    ELSE IF Head(a) # Head(b) THEN Head(a) < Head(b)
    ELSE StrLess(Tail(a), Tail(b))

\* A faulty key: the score alone on both tabs
KeyLessByScore(game, a, b) == -a.score < -b.score

\* A faulty key: (-score, time) on both tabs
KeyLessByScoreAndTime(game, a, b) ==
    -a.score < -b.score \/ (a.score = b.score /\ StrLess(a.time, b.time))

\* key(a) < key(b): the mission tab sorts by (-score, time), the quiz tab by -score
KeyLess(game, a, b) ==
    IF game = "mission_game"
    THEN -a.score < -b.score \/ (a.score = b.score /\ StrLess(a.time, b.time))
    ELSE -a.score < -b.score

RECURSIVE InsertSorted(_, _, _)
InsertSorted(game, x, s) ==
    IF s = <<>> THEN <<x>>
    ELSE IF KeyLess(game, x, Head(s)) THEN <<x>> \o s
    ELSE <<Head(s)>> \o InsertSorted(game, x, Tail(s))

\* sorted(entries, key=...): stable
RECURSIVE sorted(_, _)
sorted(game, entries) ==
    IF entries = <<>> THEN <<>>
    ELSE InsertSorted(game, entries[Len(entries)],
                      sorted(game, SubSeq(entries, 1, Len(entries) - 1)))

\* the entries one tab lists: sorted(...)[:10]
Listed(game, entries) ==
    LET s == sorted(game, entries)
    IN  SubSeq(s, 1, IF Len(s) < TopN THEN Len(s) ELSE TopN)

LeaderboardPage(rows, outcome) ==
    LET data == hub_load_leaderboard(rows, outcome)
    IN  [read |-> outcome,
         data |-> data,
         mission_game |-> Listed("mission_game", data.mission_game),
         quiz_game |-> Listed("quiz_game", data.quiz_game)]

\* No leaderboard list is on screen
NoBoard ==
    [read |-> "never", data |-> EmptyBoardData, mission_game |-> <<>>, quiz_game |-> <<>>]

\* Nothing has been noted
NoCall == [op |-> "none"]

\* No other session is inside add_score
NoWriters == [at |-> <<>>, log |-> <<>>]


----------------------------------------------------------------------------
(* Quiz data *)

\* Option i (counted from 0) of question number q
OptionLabel(q, i) == <<q, i>>

\* answer_idx of q1..q7
AnswerIdx == <<1, 2, 1, 3, 1, 1, 2>>

QuestionIds == <<"q1", "q2", "q3", "q4", "q5", "q6", "q7">>

OptionsPerQuestion == 4

QUIZ_POOL ==
    [q \in 1..7 |->
        [id |-> QuestionIds[q],
         options |-> [i \in 1..OptionsPerQuestion |-> OptionLabel(q, i - 1)],
         answer_idx |-> AnswerIdx[q]]]

\* min(3, len(QUIZ_POOL))
QuizSampleSize == 3

\* The samples random.sample is taken to return, as positions in the pool
SampleDraws == << <<1, 2, 3>>, <<4, 7, 2>>, <<6, 5, 1>>, <<3, 7, 4>> >>

quiz_sample(d) == [i \in 1..QuizSampleSize |-> QUIZ_POOL[SampleDraws[d][i]]]

\* The option the answering branch presets: current_q_data["options"][0]
DefaultOption(q) == q.options[1]

\* options.index(x), counted from 0
OptionIndex(options, x) == (CHOOSE i \in 1..Len(options) : options[i] = x) - 1

NewQuizState(d, t) ==
    [questions |-> quiz_sample(d),
     current_question |-> 0,
     answers |-> <<>>,
     start_time |-> t,
     question_start_time |-> t,
     quiz_complete |-> FALSE,
     data_saved |-> FALSE,
     selected_answer |-> None,
     answer_submitted |-> FALSE]

\* state["questions"][state["current_question"]]
CurrentQuestion(st) == st.questions[st.current_question + 1]

\* A faulty answer record: it carries the id of the first question of the pool
QuizAnswerOfFirstId(q, user_answer, time_left) ==
    [user_answer |-> user_answer,
     correct |-> (OptionIndex(q.options, user_answer) = q.answer_idx),
     time_left |-> time_left,
     question_id |-> QuestionIds[1]]

\* The answer record the answering branch appends
QuizAnswer(q, user_answer, time_left) ==
    [user_answer |-> user_answer,
     correct |-> (OptionIndex(q.options, user_answer) = q.answer_idx),
     time_left |-> time_left,
     question_id |-> q.id]

RECURSIVE CountCorrect(_)
CountCorrect(answers) ==
    IF answers = <<>> THEN 0
    ELSE (IF Head(answers).correct THEN 1 ELSE 0) + CountCorrect(Tail(answers))

RECURSIVE TotalTimeTaken(_)
TotalTimeTaken(answers) ==
    IF answers = <<>> THEN 0
    ELSE (QUIZ_TIMER_SEC - Head(answers).time_left) + TotalTimeTaken(Tail(answers))

\* A faulty count: every recorded answer, right or wrong
correct_count_answered(st) == Len(st.answers)

\* correct_count of the results branch
correct_count(st) == CountCorrect(st.answers)

\* A faulty total: the count of correct answers once more
total_questions_from_correct(st) == CountCorrect(st.answers)

\* total_questions of the results branch
total_questions(st) == Len(st.questions)

QuizRow(user, st, t) ==
    [timestamp |-> strftime(t), name |-> user.name, email |-> user.email,
     branch |-> user.branch, astronaut_name |-> user.astronaut_name,
     total_questions |-> str(total_questions(st)),
     correct_answers |-> str(correct_count(st)),
     score |-> str(correct_count(st)),
     question_ids |-> [i \in 1..Len(st.questions) |-> st.questions[i].id],
     user_answers |-> [i \in 1..Len(st.answers) |-> st.answers[i].user_answer],
     correct_answers_detail |->
         [i \in 1..Len(st.questions) |->
             st.questions[i].options[st.questions[i].answer_idx + 1]],
     time_taken |-> str(TotalTimeTaken(st.answers)),
     notes |-> <<correct_count(st), total_questions(st)>>]


----------------------------------------------------------------------------
(* Script runs.  A run operator takes the session state the run starts     *)
(* from and fixes session_state', lb_file', sink', board', crashed',       *)
(* pending' and session_io'; the action that uses it fixes the rest.       *)

Has(ss, k) == k \in DOMAIN ss

\* The ways a write of leaderboard.json may end now
AllowedWrites ==
    IF session_io.write_faults < MaxWriteFaults THEN WriteOutcomes ELSE {"ok"}

\* a run that draws the page to its end and leaves the session state at ss
Settle(ss) ==
    /\ session_state' = ss
    /\ crashed' = FALSE
    /\ pending' = FALSE
    /\ board' = NoBoard
    /\ UNCHANGED <<lb_file, sink, session_io>>

\* a run that st.rerun() or st.switch_page() ended with the session state at
\* ss: nothing is written, and the next run is pending
Rerun(ss) ==
    /\ session_state' = ss
    /\ crashed' = FALSE
    /\ pending' = TRUE
    /\ board' = NoBoard
    /\ UNCHANGED <<lb_file, sink, session_io>>

\* a run of the answering branch, noting that the learner used an answer
\* control; `rerun` tells whether st.rerun() ended it
SettleTouched(ss, touched, rerun) ==
    /\ session_state' = ss
    /\ crashed' = FALSE
    /\ pending' = rerun
    /\ session_io' = [session_io EXCEPT !.answer_touched = @ \/ touched]
    /\ board' = NoBoard
    /\ UNCHANGED <<lb_file, sink>>

\* streamlit_app.py with no widget event
HubRun(ss) ==
    LET s1 == IF Has(ss, "page") THEN ss ELSE SetKey(ss, "page", "form")
        s2 == IF Has(s1, "user") THEN s1 ELSE SetKey(s1, "user", None)
    IN  IF s2["page"] = "leaderboard"
        THEN /\ \E outcome \in HubLoadOutcomes : board' = LeaderboardPage(sheet, outcome)
             /\ session_state' = s2
             /\ crashed' = FALSE
             /\ pending' = FALSE
             /\ UNCHANGED <<lb_file, sink, session_io>>
        ELSE Settle(s2)

\* A faulty results branch: every run turns the score over
MissionResultsRunTurning(ss) ==
    Settle(SetKey(ss, "mission_state", [ss["mission_state"] EXCEPT !.score = 1 - @]))

\* The results branch of mission_game.py without a click: grade, then save
\* once.  An exception of add_score ends the run before data_saved is set.
MissionResultsRun(ss) ==
    LET user == ss["game_user"]
        st0 == ss["mission_state"]
        st == [st0 EXCEPT !.score = IF MissionIsCorrect(st0) THEN 1 ELSE 0]
        time_left == seconds_left(st.start_time, MISSION_TIMER_SEC, now)
    IN  IF st.data_saved
        THEN Settle(SetKey(ss, "mission_state", st))
        ELSE \E so \in SinkOutcomes, wo \in AllowedWrites :
               LET row == MissionRow(user, st, time_left, now)
                   res == add_score(lb_file, "mission_game", user.name, user.branch,
                                    user.astronaut_name, st.score, now, wo)
               IN  /\ sink' = append_row_to_sheet(sink, "Mission_Game", row, so)
                   /\ lb_file' = res.file
                   /\ crashed' = res.raised
                   /\ pending' = FALSE
                   /\ session_state' =
                          SetKey(ss, "mission_state",
                                 [st EXCEPT !.data_saved = ~res.raised])
                   /\ session_io' =
                          [session_io EXCEPT
                              !.add_score_calls = @ + 1,
                              !.sink_rows = @ + (IF so = "ok" THEN 1 ELSE 0),
                              !.write_faults = @ + (IF wo = "ok" THEN 0 ELSE 1)]
                   /\ board' = NoBoard

\* A faulty deadline test: the time never counts as run out
MissionNeverTimedOut(ss) == FALSE

MissionTimedOut(ss) ==
    seconds_left(ss["mission_state"].start_time, MISSION_TIMER_SEC, now) <= 0

\* A faulty head of the selecting branch: the deadline ends nothing
MissionAutoEndSkipped(ss) == Settle(ss)

\* The head of the selecting branch on time_left <= 0: game_over is set and
\* st.rerun() ends the run
MissionAutoEnd(ss) ==
    Rerun(SetKey(ss, "mission_state", [ss["mission_state"] EXCEPT !.game_over = TRUE]))

\* A faulty mission_game.py: the state is initialised before game_user is
\* looked for
MissionRunInitialisingFirst(ss) ==
    IF ~Has(ss, "mission_state")
    THEN /\ session_io.games_left > 0
         /\ \E m \in 1..MissionDraws, j \in 1..Shuffles :
                session_state' =
                    SetKey(ss, "mission_state", NewMissionState(MissionNames[m], j, now))
         /\ session_io' = [session_io EXCEPT !.games_left = @ - 1,
                                              !.add_score_calls = 0, !.sink_rows = 0,
                                              !.answer_touched = FALSE]
         /\ crashed' = FALSE
         /\ pending' = FALSE
         /\ board' = NoBoard
         /\ UNCHANGED <<lb_file, sink>>
    ELSE IF ~Has(ss, "game_user") THEN Settle(ss)
    ELSE IF ss["mission_state"].game_over THEN MissionResultsRun(ss)
    ELSE IF MissionTimedOut(ss) THEN MissionAutoEnd(ss)
    ELSE Settle(ss)

\* mission_game.py with no widget event
MissionRun(ss) ==
    IF ~Has(ss, "game_user") THEN Settle(ss)
    ELSE IF ~Has(ss, "mission_state")
    THEN /\ session_io.games_left > 0
         /\ \E m \in 1..MissionDraws, j \in 1..Shuffles :
                session_state' =
                    SetKey(ss, "mission_state", NewMissionState(MissionNames[m], j, now))
         /\ session_io' = [session_io EXCEPT !.games_left = @ - 1,
                                              !.add_score_calls = 0, !.sink_rows = 0,
                                              !.answer_touched = FALSE]
         /\ crashed' = FALSE
         /\ pending' = FALSE
         /\ board' = NoBoard
         /\ UNCHANGED <<lb_file, sink>>
    ELSE IF ss["mission_state"].game_over THEN MissionResultsRun(ss)
    ELSE IF MissionTimedOut(ss) THEN MissionAutoEnd(ss)
    ELSE Settle(ss)

\* The results branch of quiz_game.py without a click
QuizResultsRun(ss) ==
    LET user == ss["game_user"]
        st == ss["quiz_state"]
    IN  IF st.data_saved
        THEN Settle(ss)
        ELSE \E so \in SinkOutcomes, wo \in AllowedWrites :
               LET row == QuizRow(user, st, now)
                   res == add_score(lb_file, "quiz_game", user.name, user.branch,
                                    user.astronaut_name, correct_count(st), now, wo)
               IN  /\ sink' = append_row_to_sheet(sink, "Quiz_Game", row, so)
                   /\ lb_file' = res.file
                   /\ crashed' = res.raised
                   /\ pending' = FALSE
                   /\ session_state' =
                          SetKey(ss, "quiz_state",
                                 [st EXCEPT !.data_saved = ~res.raised])
                   /\ session_io' =
                          [session_io EXCEPT
                              !.add_score_calls = @ + 1,
                              !.sink_rows = @ + (IF so = "ok" THEN 1 ELSE 0),
                              !.write_faults = @ + (IF wo = "ok" THEN 0 ELSE 1)]
                   /\ board' = NoBoard

\* The answering branch of quiz_game.py for a question not yet submitted:
\* `picked` is what the radio returns (None: the widget was never touched),
\* submit_clicked whether the Submit button was.  A submission, pressed or
\* forced by the deadline, ends the run in st.rerun().
QuizAnswering(ss, picked, submit_clicked) ==
    LET st0 == ss["quiz_state"]
        q == CurrentQuestion(st0)
        time_left == seconds_left(st0.question_start_time, QUIZ_TIMER_SEC, now)
        initial == IF st0.selected_answer = None THEN DefaultOption(q)
                   ELSE st0.selected_answer
        touched == picked # None \/ submit_clicked
        selected == IF picked = None THEN initial ELSE picked
        st1 == [st0 EXCEPT !.selected_answer = selected]
    IN  IF time_left <= 0 \/ submit_clicked
        THEN SettleTouched(SetKey(ss, "quiz_state",
                 [st1 EXCEPT !.answers = Append(@, QuizAnswer(q, selected, time_left)),
                             !.answer_submitted = TRUE]), touched, TRUE)
        ELSE SettleTouched(SetKey(ss, "quiz_state", st1), touched, FALSE)

\* quiz_game.py with no widget event
QuizRun(ss) ==
    IF ~Has(ss, "game_user") THEN Settle(ss)
    ELSE IF ~Has(ss, "quiz_state")
    THEN /\ session_io.games_left > 0
         /\ \E d \in 1..QuizDraws :
                LET fresh == SetKey(ss, "quiz_state", NewQuizState(d, now))
                    q == CurrentQuestion(fresh["quiz_state"])
                IN  \* the same run goes on into the answering branch, which
                    \* presets the radio to the first option
                    session_state' =
                        SetKey(ss, "quiz_state",
                               [fresh["quiz_state"] EXCEPT
                                   !.selected_answer = DefaultOption(q)])
         /\ session_io' = [session_io EXCEPT !.games_left = @ - 1,
                                              !.add_score_calls = 0, !.sink_rows = 0,
                                              !.answer_touched = FALSE]
         /\ crashed' = FALSE
         /\ pending' = FALSE
         /\ board' = NoBoard
         /\ UNCHANGED <<lb_file, sink>>
    ELSE IF ss["quiz_state"].quiz_complete THEN QuizResultsRun(ss)
    ELSE IF ~ss["quiz_state"].answer_submitted THEN QuizAnswering(ss, None, FALSE)
    ELSE Settle(ss)


----------------------------------------------------------------------------
(* Actions: one widget event (or none) and the script run it causes *)

Frame == UNCHANGED <<now, sheet, last_call, writers>>

\* The last run drew its page to the end: its widgets take the next event
Idle == ~pending

\* A game session may still be created for the key (or exists already)
CanCreate(ss, k) == Has(ss, k) \/ session_io.games_left > 0

(* ---- streamlit_app.py ---- *)

\* What the registration form holds when Start Cadet Trials is pressed
AshaRao == <<"A", "s", "h", "a", " ", "R", "a", "o">>
GameForms ==
    { [name |-> AshaRao, email |-> <<"a", "@", "b">>, branch |-> <<"E", "C", "E">>,
       agree |-> a] : a \in BOOLEAN }

CadetProfile(form) ==
    [name |-> strip(form.name), email |-> strip(form.email),
     branch |-> strip(form.branch),
     astronaut_name |-> generate_fun_nickname(form.name)]

\* A faulty validation: the consent checkbox is not looked at
FormAcceptedWithoutConsent(form) ==
    form.name # <<>> /\ form.email # <<>> /\ form.branch # <<>>

\* `not (name and email and branch and agree)` is false
FormAccepted(form) ==
    form.name # <<>> /\ form.email # <<>> /\ form.branch # <<>> /\ form.agree

HubSubmit(form) ==
    /\ script = "hub"
    /\ Idle
    /\ session_state["page"] = "form"
    /\ IF FormAccepted(form)
       THEN Rerun(SetKey(SetKey(session_state, "user", CadetProfile(form)),
                         "page", "menu"))
       ELSE Settle(session_state)
    /\ last_call' = [op |-> "submit", form |-> form]
    /\ UNCHANGED <<script, now, sheet, writers>>

HubPlayMission ==
    /\ script = "hub"
    /\ Idle
    /\ session_state["page"] = "menu"
    /\ CanCreate(session_state, "mission_state")
    /\ Rerun(SetKey(session_state, "game_user", session_state["user"]))
    /\ script' = "mission"
    /\ Frame

HubPlayQuiz ==
    /\ script = "hub"
    /\ Idle
    /\ session_state["page"] = "menu"
    /\ CanCreate(session_state, "quiz_state")
    /\ Rerun(SetKey(session_state, "game_user", session_state["user"]))
    /\ script' = "quiz"
    /\ Frame

HubViewLeaderboard ==
    /\ script = "hub"
    /\ Idle
    /\ session_state["page"] = "menu"
    /\ Rerun(SetKey(session_state, "page", "leaderboard"))
    /\ UNCHANGED script
    /\ Frame

\* A faulty New Registration: game_user is left in the session
HubNewRegistrationKeepsGameUser ==
    /\ script = "hub"
    /\ Idle
    /\ session_state["page"] = "menu"
    /\ Rerun(SetKey(SetKey(session_state, "page", "form"), "user", None))
    /\ UNCHANGED script
    /\ Frame

HubNewRegistration ==
    /\ script = "hub"
    /\ Idle
    /\ session_state["page"] = "menu"
    /\ Rerun(PopKey(SetKey(SetKey(session_state, "page", "form"), "user", None),
                    "game_user"))
    /\ UNCHANGED script
    /\ Frame

\* The click's own run loads and lists the leaderboard once more before the
\* button is reached, and st.rerun() takes the lists off the screen.
HubBackToMenu ==
    /\ script = "hub"
    /\ Idle
    /\ session_state["page"] = "leaderboard"
    /\ Rerun(SetKey(session_state, "page", "menu"))
    /\ UNCHANGED script
    /\ Frame

\* a run of the hub without any widget event: the pending run, or a rerun
\* of the page as it stands
HubRerender ==
    /\ script = "hub"
    /\ HubRun(session_state)
    /\ UNCHANGED script
    /\ Frame

(* ---- pages/mission_game.py ---- *)

MissionSelecting ==
    /\ script = "mission"
    /\ Has(session_state, "game_user")
    /\ Has(session_state, "mission_state")
    /\ ~session_state["mission_state"].game_over

\* The results screen with its four buttons was drawn
MissionShowsResults ==
    /\ script = "mission"
    /\ Idle
    /\ Has(session_state, "game_user")
    /\ Has(session_state, "mission_state")
    /\ session_state["mission_state"].game_over
    /\ ~crashed

\* a run of the mission page without any widget event: the pending run, or
\* a rerun of the page as it stands
MissionRerender ==
    /\ script = "mission"
    /\ MissionRun(session_state)
    /\ UNCHANGED script
    /\ Frame

\* The note of a click on a button of the selecting branch: kept only when
\* the click arrives at a run of the page at which no time is left
LateClick(note) ==
    IF MissionTimedOut(session_state) THEN note ELSE last_call

\* The note of a press of Reset Order: a late click, a reset that emptied
\* the sequence, or nothing to note
ResetNote ==
    IF MissionTimedOut(session_state) THEN [op |-> "late_reset"]
    ELSE IF session_state["mission_state"].selected_sequence # <<>>
    THEN [op |-> "reset"]
    ELSE last_call

\* A faulty Reset Order: the countdown starts again
MissionResetOrderRestarting ==
    /\ MissionSelecting
    /\ Idle
    /\ LET st == session_state["mission_state"]
       IN  IF MissionTimedOut(session_state) THEN MissionAutoEnd(session_state)
           ELSE IF st.selected_sequence # <<>>
           THEN Rerun(SetKey(session_state, "mission_state",
                             [st EXCEPT !.selected_sequence = <<>>,
                                        !.start_time = now]))
           ELSE Settle(session_state)
    /\ last_call' = ResetNote
    /\ UNCHANGED <<script, now, sheet, writers>>

\* Reset Order: the head of the branch comes first; st.rerun() follows only
\* when the sequence held a step
MissionResetOrder ==
    /\ MissionSelecting
    /\ Idle
    /\ LET st == session_state["mission_state"]
       IN  IF MissionTimedOut(session_state) THEN MissionAutoEnd(session_state)
           ELSE IF st.selected_sequence # <<>>
           THEN Rerun(SetKey(session_state, "mission_state",
                             [st EXCEPT !.selected_sequence = <<>>]))
           ELSE Settle(session_state)
    /\ last_call' = ResetNote
    /\ UNCHANGED <<script, now, sheet, writers>>

\* The step button of position i (counted from 1) of the layout: the run of
\* the click appends the step, sets game_over when the sequence is full, and
\* ends in st.rerun(); grading and saving are left to the run that follows
MissionSelectStep(i) ==
    /\ MissionSelecting
    /\ Idle
    /\ LET st == session_state["mission_state"]
           step == st.options[i]
           picked == [st EXCEPT !.selected_sequence = Append(@, step)]
           after == IF Len(picked.selected_sequence) = Len(picked.options)
                    THEN [picked EXCEPT !.game_over = TRUE] ELSE picked
       IN  /\ ~InSeq(step, st.selected_sequence)
           /\ IF MissionTimedOut(session_state) THEN MissionAutoEnd(session_state)
              ELSE Rerun(SetKey(session_state, "mission_state", after))
    /\ last_call' = LateClick([op |-> "late_click",
                              button |-> session_state["mission_state"].options[i]])
    /\ UNCHANGED <<script, now, sheet, writers>>

MissionMainMenu ==
    /\ MissionShowsResults
    /\ Rerun(PopKey(session_state, "mission_state"))
    /\ script' = "hub"
    /\ Frame

MissionLeaderboard ==
    /\ MissionShowsResults
    /\ Rerun(SetKey(PopKey(session_state, "mission_state"), "page", "leaderboard"))
    /\ script' = "hub"
    /\ Frame

MissionPlayAgain ==
    /\ MissionShowsResults
    /\ session_io.games_left > 0
    /\ Rerun(PopKey(session_state, "mission_state"))
    /\ UNCHANGED script
    /\ Frame

MissionTryQuiz ==
    /\ MissionShowsResults
    /\ CanCreate(session_state, "quiz_state")
    /\ Rerun(PopKey(session_state, "mission_state"))
    /\ script' = "quiz"
    /\ Frame

(* ---- pages/quiz_game.py ---- *)

QuizActive ==
    /\ script = "quiz"
    /\ Has(session_state, "game_user")
    /\ Has(session_state, "quiz_state")
    /\ ~session_state["quiz_state"].quiz_complete

QuizShowsResults ==
    /\ script = "quiz"
    /\ Idle
    /\ Has(session_state, "game_user")
    /\ Has(session_state, "quiz_state")
    /\ session_state["quiz_state"].quiz_complete
    /\ ~crashed

\* a run of the quiz page without any widget event: the pending run, or a
\* rerun of the page as it stands
QuizRerender ==
    /\ script = "quiz"
    /\ QuizRun(session_state)
    /\ UNCHANGED script
    /\ Frame

\* The radio is moved to option i (counted from 1)
QuizSelect(i) ==
    /\ QuizActive
    /\ Idle
    /\ ~session_state["quiz_state"].answer_submitted
    /\ QuizAnswering(session_state,
                     CurrentQuestion(session_state["quiz_state"]).options[i], FALSE)
    /\ UNCHANGED script
    /\ Frame

\* Submit Answer
QuizSubmit ==
    /\ QuizActive
    /\ Idle
    /\ ~session_state["quiz_state"].answer_submitted
    /\ QuizAnswering(session_state, None, TRUE)
    /\ UNCHANGED script
    /\ Frame

\* A faulty Next Question: the countdown of the question before goes on
QuizNextKeepsClock ==
    /\ QuizActive
    /\ Idle
    /\ session_state["quiz_state"].answer_submitted
    /\ LET st == session_state["quiz_state"]
       IN  /\ st.current_question + 1 < Len(st.questions)
           /\ Rerun(SetKey(session_state, "quiz_state",
                  [st EXCEPT !.current_question = @ + 1,
                             !.selected_answer = None,
                             !.answer_submitted = FALSE]))
    /\ UNCHANGED script
    /\ Frame

\* Next Question
QuizNext ==
    /\ QuizActive
    /\ Idle
    /\ session_state["quiz_state"].answer_submitted
    /\ LET st == session_state["quiz_state"]
       IN  /\ st.current_question + 1 < Len(st.questions)
           /\ Rerun(SetKey(session_state, "quiz_state",
                  [st EXCEPT !.current_question = @ + 1,
                             !.question_start_time = now,
                             !.selected_answer = None,
                             !.answer_submitted = FALSE]))
    /\ UNCHANGED script
    /\ Frame

\* A faulty Finish Quiz: offered on every submitted question
QuizFinishOnAnyQuestion ==
    /\ QuizActive
    /\ Idle
    /\ session_state["quiz_state"].answer_submitted
    /\ Rerun(SetKey(session_state, "quiz_state",
                     [session_state["quiz_state"] EXCEPT !.quiz_complete = TRUE]))
    /\ UNCHANGED script
    /\ Frame

\* Finish Quiz
QuizFinish ==
    /\ QuizActive
    /\ Idle
    /\ session_state["quiz_state"].answer_submitted
    /\ LET st == session_state["quiz_state"]
       IN  /\ ~(st.current_question + 1 < Len(st.questions))
           /\ Rerun(SetKey(session_state, "quiz_state",
                            [st EXCEPT !.quiz_complete = TRUE]))
    /\ UNCHANGED script
    /\ Frame

QuizMainMenu ==
    /\ QuizShowsResults
    /\ Rerun(PopKey(session_state, "quiz_state"))
    /\ script' = "hub"
    /\ Frame

QuizLeaderboard ==
    /\ QuizShowsResults
    /\ Rerun(SetKey(PopKey(session_state, "quiz_state"), "page", "leaderboard"))
    /\ script' = "hub"
    /\ Frame

QuizPlayAgain ==
    /\ QuizShowsResults
    /\ session_io.games_left > 0
    /\ Rerun(PopKey(session_state, "quiz_state"))
    /\ UNCHANGED script
    /\ Frame

QuizTryMission ==
    /\ QuizShowsResults
    /\ CanCreate(session_state, "mission_state")
    /\ Rerun(PopKey(session_state, "quiz_state"))
    /\ script' = "mission"
    /\ Frame

(* ---- the clock ---- *)

\* A countdown that has not run out is being shown
TimerRunning ==
    \/ /\ MissionSelecting
       /\ ~MissionTimedOut(session_state)
    \/ /\ QuizActive
       /\ ~session_state["quiz_state"].answer_submitted
       /\ seconds_left(session_state["quiz_state"].question_start_time,
                       QUIZ_TIMER_SEC, now) > 0

\* A run of a game page is pending: it will read the clock anew
GameRunPending == pending /\ script \in {"mission", "quiz"}

\* ClockStep seconds pass; the clock is followed while a countdown runs down
\* and, up to MaxTicks steps from the start, while a run of a game page is
\* pending
Tick ==
    /\ TimerRunning \/ (GameRunPending /\ now < MaxTicks * ClockStep)
    /\ now' = now + ClockStep
    /\ UNCHANGED <<writers, script, session_state, lb_file, sink, sheet, board, crashed,
                   pending, last_call, session_io>>

----------------------------------------------------------------------------
(* Spec: the session from its first run of the hub, through registration   *)
(* and one game session (a second game session is not created)             *)

\* Nothing written yet, and `games` game sessions still to be created
NoSessionIo(games) ==
    [games_left |-> games, write_faults |-> 0, add_score_calls |-> 0, sink_rows |-> 0,
     answer_touched |-> FALSE]


Init ==
    /\ script = "hub"
    /\ session_state = [k \in {"page", "user"} |-> IF k = "page" THEN "form" ELSE None]
    /\ now = 0
    /\ lb_file = FileMissing
    /\ sink = EmptySink
    /\ sheet = <<>>
    /\ board = NoBoard
    /\ crashed = FALSE
    /\ pending = FALSE
    /\ last_call = NoCall
    /\ writers = NoWriters
    /\ session_io = NoSessionIo(1)

Next ==
    \/ \E form \in GameForms : HubSubmit(form)
    \/ HubPlayMission
    \/ HubPlayQuiz
    \/ HubViewLeaderboard
    \/ HubNewRegistration
    \/ HubBackToMenu
    \/ HubRerender
    \/ MissionRerender
    \/ MissionResetOrder
    \/ \E i \in 1..StepsPerMission : MissionSelectStep(i)
    \/ MissionMainMenu
    \/ MissionLeaderboard
    \/ QuizRerender
    \/ \E i \in 1..OptionsPerQuestion : QuizSelect(i)
    \/ QuizSubmit
    \/ QuizNext
    \/ QuizFinish
    \/ QuizMainMenu
    \/ QuizLeaderboard
    \/ Tick

Spec == Init /\ [][Next]_vars


----------------------------------------------------------------------------
(* Claims on a game session, under Spec *)

\* The entries a leaderboard document holds under a game key
EntriesIn(file, game_key) ==
    IF /\ file.kind = "json"
       /\ file.value.type = "dict"
       /\ game_key \in DOMAIN file.value.items
       /\ file.value.items[game_key].type = "list"
    THEN file.value.items[game_key].elems
    ELSE <<>>

StoredEntries(game_key) == EntriesIn(lb_file, game_key)

MissionSessionOver ==
    /\ Has(session_state, "mission_state")
    /\ session_state["mission_state"].game_over

QuizSessionOver ==
    /\ Has(session_state, "quiz_state")
    /\ session_state["quiz_state"].quiz_complete

\* The run that set game_over has ended in st.rerun(), and the run of the
\* results branch it asked for has yet to start
MissionResultsPending == script = "mission" /\ pending /\ MissionSessionOver

QuizResultsPending == script = "quiz" /\ pending /\ QuizSessionOver

\* The terminal state of the session has been rendered
MissionResultsDrawn == MissionSessionOver /\ ~MissionResultsPending

QuizResultsDrawn == QuizSessionOver /\ ~QuizResultsPending

\* C1, as the specification states it: a game session whose terminal state
\* has been rendered has made one leaderboard append and at most one
\* response-sink row, however many times the results have been drawn since.
C1_PersistedExactlyOnce ==
    (MissionResultsDrawn \/ QuizResultsDrawn) =>
        /\ session_io.add_score_calls = 1
        /\ session_io.sink_rows <= 1

\* C2: the mission score graded and persisted is 1 exactly when the selected
\* sequence equals the mission's canonical chronological list in content, order
\* and length, and 0 otherwise: in the session state once the results branch
\* has run, in the leaderboard entry once it is saved, and in every
\* response-sink row.
C2_ScoreIffCanonical ==
    /\ MissionResultsDrawn =>
         LET st == session_state["mission_state"]
             canonical == MISSIONS[st.mission_name].steps_correct
             exact == /\ Len(st.selected_sequence) = Len(canonical)
                      /\ \A i \in 1..Len(canonical) : st.selected_sequence[i] = canonical[i]
             stored == StoredEntries("mission_game")
         IN  /\ st.score = (IF exact THEN 1 ELSE 0)
             /\ st.data_saved =>
                  /\ stored # <<>>
                  /\ stored[Len(stored)].score = st.score
    /\ \A i \in 1..Len(sink.Mission_Game.rows) :
         LET row == sink.Mission_Game.rows[i]
             exact == row.user_sequence = [joined |-> row.correct_sequence]
         IN  /\ row.correct_sequence = MISSIONS[row.mission_name].steps_correct
             /\ row.score = str(IF exact THEN 1 ELSE 0)
             /\ row.mission_correct = (IF exact THEN "True" ELSE "False")

\* C2's case: a game that ended on a proper, non-empty prefix of the canonical
\* list has been graded 0 and saved.
C2_PrefixSaved ==
    /\ MissionSessionOver
    /\ LET st == session_state["mission_state"]
           canonical == MISSIONS[st.mission_name].steps_correct
           n == Len(st.selected_sequence)
       IN  /\ n > 0
           /\ n < Len(canonical)
           /\ st.selected_sequence = SubSeq(canonical, 1, n)
           /\ st.data_saved
           /\ st.score = 0
           /\ sink.Mission_Game.rows # <<>>

\* The number of TRUE correct flags among the recorded answers
TrueFlags(answers) == Cardinality({i \in 1..Len(answers) : answers[i].correct})

\* C3: the quiz score persisted equals the number of recorded answers whose
\* correct flag is true, an integer between 0 and the number of sampled
\* questions: in the leaderboard entry once it is saved and in every
\* response-sink row of the session.
C3_ScoreCountsCorrect ==
    /\ (QuizSessionOver /\ session_state["quiz_state"].data_saved) =>
         LET st == session_state["quiz_state"]
             stored == StoredEntries("quiz_game")
         IN  /\ stored # <<>>
             /\ stored[Len(stored)].score = TrueFlags(st.answers)
             /\ stored[Len(stored)].score \in 0..Len(st.questions)
    /\ (QuizSessionOver /\ sink.Quiz_Game.rows # <<>>) =>
         LET st == session_state["quiz_state"]
         IN  \A i \in 1..Len(sink.Quiz_Game.rows) :
                 /\ sink.Quiz_Game.rows[i].score = str(TrueFlags(st.answers))
                 /\ sink.Quiz_Game.rows[i].correct_answers = str(TrueFlags(st.answers))

\* C3's case: a saved quiz with some answers right and some wrong
C3_MixedQuizSaved ==
    /\ QuizSessionOver
    /\ LET st == session_state["quiz_state"]
       IN  /\ st.data_saved
           /\ TrueFlags(st.answers) > 0
           /\ TrueFlags(st.answers) < Len(st.answers)
           /\ sink.Quiz_Game.rows # <<>>

\* C4, as the specification states it: the selection that fills the sequence
\* ends the game in the same handled event, and the run of the results branch
\* that follows gives a sequence chosen in canonical order before the timeout
\* score 1 and adds exactly one mission_game entry with score 1 to the
\* leaderboard document.
C4_LastStepCompletes ==
    [][ LET st == session_state["mission_state"]
            after == session_state'["mission_state"]
        IN  /\ ( /\ MissionSelecting
                 /\ Has(session_state', "mission_state")
                 /\ Len(st.selected_sequence) = Len(st.options) - 1
                 /\ Len(after.selected_sequence) = Len(st.options) )
               => after.game_over
            /\ ( /\ MissionResultsPending
                 /\ ~pending'
                 /\ ~st.data_saved
                 /\ st.selected_sequence = MISSIONS[st.mission_name].steps_correct )
               => /\ after.game_over
                  /\ after.score = 1
                  /\ Len(StoredEntries("mission_game")') =
                         Len(StoredEntries("mission_game")) + 1
                  /\ StoredEntries("mission_game")'
                         [Len(StoredEntries("mission_game")')].score = 1
      ]_vars

\* C6, as the specification states it: a result a game page has persisted with
\* add_score is part of what the hub's leaderboard page loads afterwards.  Every
\* entry of leaderboard.json is in the sequence of its game key that a
\* successful load_leaderboard of the leaderboard page returned.
C6_PersistedEntryLoaded ==
    ( /\ script = "hub"
      /\ session_state["page"] = "leaderboard"
      /\ board.read = "ok" )
    => \A k \in GameKeys :
          \A i \in 1..Len(StoredEntries(k)) : InSeq(StoredEntries(k)[i], board.data[k])

\* The game state the present session keeps, whichever game it is
GameStateKey(ss) == IF Has(ss, "mission_state") THEN "mission_state" ELSE "quiz_state"

GameKeyOf(ss) == IF Has(ss, "mission_state") THEN "mission_game" ELSE "quiz_game"

\* C10, as the specification states it: when the response sink fails, the same
\* render still appends to the leaderboard, sets the persisted flag and ends
\* without an error.  A step in which the persistence block ran and the sink
\* took no row ends with the flag set, no exception, and one more entry under
\* the session's game key.
C10_SinkFailureIsolated ==
    [][ ( /\ session_io'.add_score_calls = session_io.add_score_calls + 1
          /\ session_io'.sink_rows = session_io.sink_rows )
        => /\ ~crashed'
           /\ session_state'[GameStateKey(session_state')].data_saved
           /\ Len(EntriesIn(lb_file', GameKeyOf(session_state'))) =
                  Len(EntriesIn(lb_file, GameKeyOf(session_state'))) + 1
      ]_vars

----------------------------------------------------------------------------
(* The quiz page on its own, under SpecQuiz.  The clock keeps running while *)
(* a countdown is shown, and a run that st.rerun() or st.switch_page() has  *)
(* asked for is performed.  Nothing else is scheduled: the page has no      *)
(* auto-refresh, and Next Question and Finish Quiz are buttons.             *)

NextQuiz ==
    \/ \E form \in GameForms : HubSubmit(form)
    \/ HubRerender
    \/ HubPlayQuiz
    \/ QuizRerender
    \/ \E i \in 1..OptionsPerQuestion : QuizSelect(i)
    \/ QuizSubmit
    \/ QuizNext
    \/ QuizFinish
    \/ Tick

SpecQuiz ==
    /\ Init
    /\ [][NextQuiz]_vars
    /\ WF_vars(Tick)
    /\ WF_vars(pending /\ HubRerender)
    /\ WF_vars(pending /\ QuizRerender)

\* The sampled questions whose correct option is the preset first one
FirstOptionRight(questions) ==
    {i \in 1..Len(questions) : questions[i].answer_idx = 0}

\* What a quiz left to its timers must have recorded once it is complete
TimedOutQuizRecorded ==
    LET st == session_state["quiz_state"]
        stored == StoredEntries("quiz_game")
    IN  /\ Len(st.answers) = Len(st.questions)
        /\ \A i \in 1..Len(st.answers) :
              /\ st.answers[i].user_answer = st.questions[i].options[1]
              /\ st.answers[i].time_left = 0
              /\ st.answers[i].correct = (i \in FirstOptionRight(st.questions))
        /\ TrueFlags(st.answers) = Cardinality(FirstOptionRight(st.questions))
        /\ st.data_saved =>
              /\ stored # <<>>
              /\ stored[Len(stored)].score = Cardinality(FirstOptionRight(st.questions))

\* C5, as the specification states it: a quiz session whose answer controls
\* are never used, every question being left to its timer, still reaches the
\* Complete state, after one answer per sampled question, and its final score
\* is the number of sampled questions whose correct option is the preset first
\* option.  A quiz in progress that is untouched so far is complete later on,
\* unless its answer controls are used after all.
C5_UntouchedQuizCompletes ==
    /\ []((QuizSessionOver /\ ~session_io.answer_touched) => TimedOutQuizRecorded)
    /\ (QuizActive /\ ~session_io.answer_touched)
           ~> (QuizSessionOver \/ session_io.answer_touched)

----------------------------------------------------------------------------
(* The hub's leaderboard page over a worksheet that others fill, under       *)
(* SpecBoard.  The first VariedRows records are arbitrary; later records     *)
(* repeat the last one, up to MaxRows records.                               *)

BoardTimes == {<<9>>, <<1, 0>>}

RowChoices ==
    { SheetRecord(g, <<"N">>, <<"n">>, <<"B">>, IntCell(sc), t) :
          g \in GameKeys, sc \in 0..1, t \in BoardTimes }

\* Somebody appends a record to the "Leaderboard" worksheet
SheetAppend(row) ==
    /\ Len(sheet) < MaxRows
    /\ IF Len(sheet) < VariedRows \/ sheet = <<>> THEN TRUE
       ELSE row = sheet[Len(sheet)]
    /\ sheet' = Append(sheet, row)
    /\ UNCHANGED <<writers, script, session_state, now, lb_file, sink, board, crashed,
                   pending,
                   last_call, session_io>>

NextBoard ==
    \/ \E form \in GameForms : HubSubmit(form)
    \/ HubViewLeaderboard
    \/ HubBackToMenu
    \/ HubRerender
    \/ \E row \in RowChoices : SheetAppend(row)

SpecBoard == Init /\ [][NextBoard]_vars

\* How often an entry occurs in a sequence
Count(s, e) == Cardinality({i \in 1..Len(s) : s[i] = e})

\* a sorts before b on the mission tab: the higher score, or the same score
\* and the lexicographically earlier time string
MissionBefore(a, b) ==
    a.score > b.score \/ (a.score = b.score /\ StrLess(a.time, b.time))

\* C7: the mission tab lists at most 10 entries of the loaded mission_game
\* sequence; no listed entry has a lower score than one after it, and of two
\* listed entries with equal score the one with the lexicographically earlier
\* time string comes first; every loaded entry that is left out sorts no
\* earlier than every listed one.
C7_MissionTopTen ==
    LET loaded == board.data.mission_game
        listed == board.mission_game
    IN  /\ Len(listed) <= TopN
        /\ \A i \in 1..Len(listed) : Count(listed, listed[i]) <= Count(loaded, listed[i])
        /\ \A i, j \in 1..Len(listed) :
              i < j => /\ listed[i].score >= listed[j].score
                       /\ ~MissionBefore(listed[j], listed[i])
        /\ \A p \in 1..Len(loaded) :
              Count(listed, loaded[p]) < Count(loaded, loaded[p])
                  => \A i \in 1..Len(listed) : ~MissionBefore(loaded[p], listed[i])

\* C7's case: more than 10 mission entries were loaded, 10 are listed, and two
\* listed entries tie on the score and differ in the time string.
C7_MissionBoardCut ==
    /\ Len(board.data.mission_game) > TopN
    /\ Len(board.mission_game) = TopN
    /\ \E i, j \in 1..Len(board.mission_game) :
          /\ i < j
          /\ board.mission_game[i].score = board.mission_game[j].score
          /\ StrLess(board.mission_game[i].time, board.mission_game[j].time)
    /\ \E p \in 1..Len(board.data.mission_game) :
          Count(board.mission_game, board.data.mission_game[p])
              < Count(board.data.mission_game, board.data.mission_game[p])

\* The entries of s with score v, in the order of s
WithScore(s, v) == LET hit(e) == e.score = v IN SelectSeq(s, hit)

\* a can be had from b by leaving entries out
RECURSIVE IsSubSeq(_, _)
IsSubSeq(a, b) ==
    IF a = <<>> THEN TRUE
    ELSE IF b = <<>> THEN FALSE
    ELSE IF Head(a) = Head(b) THEN IsSubSeq(Tail(a), Tail(b))
    ELSE IsSubSeq(a, Tail(b))

\* C8: the quiz tab lists at most 10 entries of the loaded quiz_game sequence
\* in non-increasing score order, and the listed entries of one score appear
\* in their load order.
C8_QuizTopTen ==
    LET loaded == board.data.quiz_game
        listed == board.quiz_game
    IN  /\ Len(listed) <= TopN
        /\ \A i, j \in 1..Len(listed) : i < j => listed[i].score >= listed[j].score
        /\ \A i \in 1..Len(listed) :
              IsSubSeq(WithScore(listed, listed[i].score),
                       WithScore(loaded, listed[i].score))

\* C8's case: more than 10 quiz entries were loaded, 10 are listed, among them
\* two of one score that differ, and two of different scores.
C8_QuizBoardCut ==
    /\ Len(board.data.quiz_game) > TopN
    /\ Len(board.quiz_game) = TopN
    /\ \E i, j \in 1..Len(board.quiz_game) :
          /\ board.quiz_game[i].score = board.quiz_game[j].score
          /\ board.quiz_game[i] # board.quiz_game[j]
    /\ \E i, j \in 1..Len(board.quiz_game) :
          board.quiz_game[i].score # board.quiz_game[j].score

----------------------------------------------------------------------------
(* The leaderboard functions of the game pages called one at a time on a     *)
(* leaderboard.json of any content, under SpecStore                          *)

StoreEntry == LeaderboardEntry(<<"n">>, <<"B">>, <<"N">>, 1, 0)

\* What a slot of a stored mapping may hold
StoreSlots == {JsonList(<<>>), JsonList(<<StoreEntry>>), JsonOther}

\* leaderboard.json as the functions may find it
StoreFiles ==
    {FileMissing, FileUnparsable, FileJson(JsonOther), FileJson(JsonList(<<>>))}
        \cup { FileJson(JsonDict(items)) :
                   items \in UNION { [keys -> StoreSlots] : keys \in SUBSET GameKeys } }

InitStore ==
    /\ script = "hub"
    /\ session_state = [page |-> "form", user |-> None]
    /\ now = 0
    /\ lb_file \in StoreFiles
    /\ sink = EmptySink
    /\ sheet = <<>>
    /\ board = NoBoard
    /\ crashed = FALSE
    /\ pending = FALSE
    /\ last_call = NoCall
    /\ writers = NoWriters
    /\ session_io = NoSessionIo(0)

\* load_leaderboard() is called
StoreLoad ==
    /\ last_call' = [op |-> "load", file |-> lb_file, raised |-> FALSE,
                     result |-> load_leaderboard(lb_file)]
    /\ UNCHANGED <<writers, script, session_state, now, lb_file, sink, sheet, board,
                   crashed, pending,
                   session_io>>

\* add_score(game_key, ...) is called
StoreAddScore(game_key, score) ==
    /\ Len(EntriesIn(lb_file, "mission_game")) + Len(EntriesIn(lb_file, "quiz_game"))
           < MaxEntries
    /\ \E wo \in AllowedWrites :
          LET res == add_score(lb_file, game_key, <<"n">>, <<"B">>, <<"N">>, score, now, wo)
          IN  /\ lb_file' = res.file
              /\ last_call' = [op |-> "add_score", file |-> lb_file, raised |-> res.raised,
                               write |-> wo, game_key |-> game_key, score |-> score]
              /\ session_io' = [session_io EXCEPT
                                   !.write_faults = @ + (IF wo = "ok" THEN 0 ELSE 1)]
    /\ UNCHANGED <<writers, script, session_state, now, sink, sheet, board, crashed, pending>>

\* load_leaderboard() of utils/shared.py is called
SharedLoad ==
    /\ last_call' = [op |-> "shared_load", file |-> lb_file, raised |-> FALSE,
                     result |-> shared_load_leaderboard(lb_file)]
    /\ UNCHANGED <<writers, script, session_state, now, lb_file, sink, sheet, board,
                   crashed, pending,
                   session_io>>

\* add_score(game_key, ...) of utils/shared.py is called
SharedAddScore(game_key, score) ==
    /\ Len(EntriesIn(lb_file, "mission_game")) + Len(EntriesIn(lb_file, "quiz_game"))
           < MaxEntries
    /\ \E wo \in AllowedWrites :
          LET res == shared_add_score(lb_file, game_key, <<"n">>, <<"B">>, <<"N">>, score,
                                      now, wo)
          IN  /\ lb_file' = res.file
              /\ last_call' = [op |-> "shared_add_score", file |-> lb_file,
                               raised |-> res.raised, write |-> wo,
                               game_key |-> game_key, score |-> score]
              /\ session_io' = [session_io EXCEPT
                                   !.write_faults = @ + (IF wo = "ok" THEN 0 ELSE 1)]
    /\ UNCHANGED <<writers, script, session_state, now, sink, sheet, board, crashed, pending>>

NextStore ==
    \/ StoreLoad
    \/ \E game_key \in GameKeys, score \in 0..1 : StoreAddScore(game_key, score)
    \/ SharedLoad
    \/ \E game_key \in GameKeys, score \in 0..1 : SharedAddScore(game_key, score)

SpecStore == InitStore /\ [][NextStore]_vars

\* The content is a mapping from game key to a list of entries
ProperMapping(file) ==
    /\ file.kind = "json"
    /\ file.value.type = "dict"
    /\ \A k \in DOMAIN file.value.items : file.value.items[k].type = "list"

\* C9, as the specification states it: on a leaderboard.json that is missing,
\* unparsable, or parsable but no mapping from game key to a list of entries,
\* load_leaderboard (of the game pages and of utils/shared.py) returns
\* {mission_game: [], quiz_game: []} without raising,
\* and an add_score that follows, its write going through, does not raise.
C9_MalformedLoadsEmpty ==
    (last_call.op # "none" /\ ~ProperMapping(last_call.file)) =>
        /\ last_call.op \in {"load", "shared_load"} =>
              /\ ~last_call.raised
              /\ last_call.result = EmptyLeaderboard
        /\ (last_call.op \in {"add_score", "shared_add_score"} /\ last_call.write = "ok")
              => ~last_call.raised

\* C22, as the specification states it: an add_score(game_key, ...), of the
\* game pages or of utils/shared.py, called with no other writer on a document
\* that is a mapping from game key to a list of entries, leaves the document
\* with the entries of game_key as before followed by the new entry, and with
\* every other key and its entries as before.
C22_AddScoreAppends ==
    (/\ last_call.op \in {"add_score", "shared_add_score"}
     /\ ProperMapping(last_call.file))
        => LET before == last_call.file.value.items
               k == last_call.game_key
               old == IF k \in DOMAIN before THEN before[k].elems ELSE <<>>
           IN  /\ ~last_call.raised
               /\ ProperMapping(lb_file)
               /\ DOMAIN lb_file.value.items = DOMAIN before \cup {k}
               /\ lb_file.value.items[k].elems
                      = old \o << [name |-> <<"n">>, branch |-> <<"B">>,
                                   nickname |-> <<"N">>, score |-> last_call.score,
                                   time |-> strftime(now)] >>
               /\ \A j \in DOMAIN before \ {k} : lb_file.value.items[j] = before[j]

----------------------------------------------------------------------------
(* The hub on its own, with forms of every kind and direct calls of          *)
(* generate_fun_nickname, under SpecHub                                      *)

\* What may be typed into the Full Name field
HubNames ==
    { <<>>,
      <<" ">>,
      AshaRao,
      <<" ", "l", "i", " ">>,
      <<"R", "2", "-", "D", "2">>,
      <<"4", "2">>,
      <<"\t", "Z", "e", "d">>,
      <<"B", "a", "r", "t", "h", "o", "l", "o", "m", "e", "w", " ", "X">>,
      <<"a", "s", "h", "a">> }

HubForms ==
    { [name |-> n, email |-> e, branch |-> b, agree |-> a] :
          n \in HubNames,
          e \in {<<>>, <<" ">>, <<"a", "@", "b">>},
          b \in {<<>>, <<" ">>, <<"E", "C", "E">>},
          a \in BOOLEAN }

\* generate_fun_nickname(name) is called
NicknameCall(name) ==
    /\ last_call' = [op |-> "nickname", name |-> name,
                     result |-> generate_fun_nickname(name)]
    /\ UNCHANGED <<writers, script, session_state, now, lb_file, sink, sheet, board,
                   crashed, pending,
                   session_io>>

NextHub ==
    \/ \E form \in HubForms : HubSubmit(form)
    \/ HubViewLeaderboard
    \/ HubBackToMenu
    \/ HubNewRegistration
    \/ HubRerender
    \/ \E name \in HubNames : NicknameCall(name)

SpecHub == Init /\ [][NextHub]_vars

\* C11: a submit of the registration form moves the page from form to menu
\* and stores the profile of the form, its nickname derived from the name as
\* typed, only when name, email and branch are non-empty and consent is given;
\* every other submit leaves the page on form and the stored profile as it was.
C11_SubmitStoresProfile ==
    [][ ( /\ script = "hub"
          /\ session_state["page"] = "form"
          /\ last_call'.op = "submit"
          /\ last_call' # last_call )
        => LET form == last_call'.form
               complete == /\ Len(form.name) > 0
                           /\ Len(form.email) > 0
                           /\ Len(form.branch) > 0
                           /\ form.agree = TRUE
           IN  IF complete
               THEN /\ session_state'["page"] = "menu"
                    /\ session_state'["user"] =
                           [name |-> strip(form.name), email |-> strip(form.email),
                            branch |-> strip(form.branch),
                            astronaut_name |-> generate_fun_nickname(form.name)]
               ELSE /\ session_state'["page"] = "form"
                    /\ session_state'["user"] = session_state["user"]
      ]_vars

\* C11's case: a form filled in but without consent was turned down: the
\* page is still the form and no profile is stored
C11_SubmitTurnedDown ==
    /\ script = "hub"
    /\ session_state["page"] = "form"
    /\ session_state["user"] = None
    /\ last_call.op = "submit"
    /\ last_call.form.name # <<>>
    /\ last_call.form.email # <<>>
    /\ last_call.form.branch # <<>>
    /\ ~last_call.form.agree

\* The sum of the code points of the first n characters of name
RECURSIVE CodePoints(_, _)
CodePoints(name, n) == IF n = 0 THEN 0 ELSE CodePoints(name, n - 1) + ord(name[n])

\* The nickname the claim describes for a name
NicknameOf(name) ==
    LET h == IF Len(name) = 0 THEN 999 ELSE CodePoints(name, Len(name))
        letters == OnlyAlpha(FirstToken(name))
        cleaned == IF strip(name) = <<>> THEN <<"C", "a", "d", "e", "t">>
                   ELSE capitalize(SubSeq(letters, 1,
                                          IF Len(letters) < 5 THEN Len(letters) ELSE 5))
    IN  prefixes[(h % 10) + 1] \o cleaned \o suffixes[((h \div 10) % 10) + 1]

\* C12: generate_fun_nickname is a function of the name alone: a call returns
\* the non-empty nickname PREFIXES[h mod 10] + cleaned base + SUFFIXES[(h div
\* 10) mod 10], h being the sum of the code points of the name as given (999
\* for the empty name) and the base "Cadet" when the trimmed name is empty; the
\* empty name yields "TikiCadeta"; and a call repeated with the same name
\* returns the same nickname.
C12_NicknameIsFunctionOfName ==
    /\ [](last_call.op = "nickname"
            => /\ last_call.result = NicknameOf(last_call.name)
               /\ Len(last_call.result) > 0
               /\ (last_call.name = <<>>
                    => last_call.result =
                           <<"T", "i", "k", "i", "C", "a", "d", "e", "t", "a">>))
    /\ [][ ( /\ last_call.op = "nickname"
             /\ last_call'.op = "nickname"
             /\ last_call'.name = last_call.name )
           => last_call'.result = last_call.result ]_vars

\* C12's case: the nickname of a name with spaces around it was computed, its
\* prefix and suffix chosen by a sum that counts the spaces
C12_PaddedNameCalled ==
    /\ last_call.op = "nickname"
    /\ last_call.name = <<" ", "l", "i", " ">>
    /\ last_call.result = <<"Q", "u", "i", "p", "L", "i", "i", "x">>

\* C25: every stored profile has a non-empty name, a non-empty email and a
\* non-empty branch, as stored.
C25_ProfileFieldsNonEmpty ==
    session_state["user"] # None
        => /\ Len(session_state["user"].name) > 0
           /\ Len(session_state["user"].email) > 0
           /\ Len(session_state["user"].branch) > 0

----------------------------------------------------------------------------
(* Further properties of the game pages under Spec *)

\* C13: in every mission state the selected sequence has no step twice, each
\* of its steps is one of the session's options, and it is no longer than the
\* options; and a step that is appended was not in the sequence before.
C13_SelectedStepsDistinct ==
    /\ [](Has(session_state, "mission_state")
            => LET st == session_state["mission_state"]
                   sel == st.selected_sequence
               IN  /\ \A i, j \in 1..Len(sel) : sel[i] = sel[j] => i = j
                   /\ \A i \in 1..Len(sel) : \E k \in 1..Len(st.options) : sel[i] = st.options[k]
                   /\ Len(sel) <= Len(st.options))
    /\ [][ ( /\ Has(session_state, "mission_state")
             /\ Has(session_state', "mission_state")
             /\ Len(session_state'["mission_state"].selected_sequence)
                    = Len(session_state["mission_state"].selected_sequence) + 1 )
           => LET sel == session_state["mission_state"].selected_sequence
                  sel2 == session_state'["mission_state"].selected_sequence
              IN  /\ SubSeq(sel2, 1, Len(sel)) = sel
                  /\ \A i \in 1..Len(sel) : sel[i] # sel2[Len(sel2)] ]_vars

\* C13's case: every option was selected once, in an order that is neither the
\* canonical one nor that of the buttons, which ended the mission
C13_AllStepsSelected ==
    /\ Has(session_state, "mission_state")
    /\ LET st == session_state["mission_state"]
       IN  /\ Len(st.selected_sequence) = Len(st.options)
           /\ st.selected_sequence # st.options
           /\ st.selected_sequence # st.mission.steps_correct
           /\ st.game_over

\* C15: a run of the mission page in Selecting state at which no time is left
\* appends no step and does not reset the sequence, whatever was clicked: the
\* mission is over with the selected sequence unchanged, and the score the
\* session holds is the grade of that sequence.
C15_LateClickDiscarded ==
    [][ ( /\ MissionSelecting
          /\ now - session_state["mission_state"].start_time >= MISSION_TIMER_SEC
          /\ \/ session_state' # session_state
             \/ last_call' # last_call )
        => /\ Has(session_state', "mission_state")
           /\ LET st == session_state["mission_state"]
                  st2 == session_state'["mission_state"]
              IN  /\ st2.selected_sequence = st.selected_sequence
                  /\ st2.game_over
                  /\ st2.score = IF st.selected_sequence = st.mission.steps_correct
                                 THEN 1 ELSE 0 ]_vars

\* C15's case: with one step selected, a step button not yet used was clicked
\* after the deadline, and the mission is over with that one step
C15_LateStepClicked ==
    /\ Has(session_state, "mission_state")
    /\ last_call.op = "late_click"
    /\ LET st == session_state["mission_state"]
       IN  /\ Len(st.selected_sequence) = 1
           /\ st.selected_sequence[1] # last_call.button
           /\ st.game_over

\* C16: in every quiz state the number of recorded answers is the current
\* question index, plus one when the current question is submitted; the i-th
\* answer carries the id of the i-th sampled question; and while the session
\* lasts the recorded answers only grow at their end.
C16_AnswersAppendOnly ==
    /\ [](Has(session_state, "quiz_state")
            => LET st == session_state["quiz_state"]
               IN  /\ Len(st.answers)
                         = st.current_question + (IF st.answer_submitted THEN 1 ELSE 0)
                   /\ Len(st.answers) <= Len(st.questions)
                   /\ \A i \in 1..Len(st.answers) :
                          st.answers[i].question_id = st.questions[i].id)
    /\ [][ (Has(session_state, "quiz_state") /\ Has(session_state', "quiz_state"))
           => LET a == session_state["quiz_state"].answers
                  a2 == session_state'["quiz_state"].answers
              IN  /\ Len(a) <= Len(a2)
                  /\ Len(a2) <= Len(a) + 1
                  /\ SubSeq(a2, 1, Len(a)) = a ]_vars

\* C16's case: the second question was submitted, so two answers are recorded
\* while the index stands at 1
C16_SecondAnswerRecorded ==
    /\ Has(session_state, "quiz_state")
    /\ LET st == session_state["quiz_state"]
       IN  /\ st.current_question = 1
           /\ st.answer_submitted
           /\ Len(st.answers) = 2
           /\ st.answers[1].question_id # st.answers[2].question_id
           /\ ~st.quiz_complete

\* C17: the question index changes only by a step from Submitted state with
\* more questions remaining, and then by one; the quiz becomes complete only
\* by a step from Submitted state on the last question; so the index stays
\* within 0..n-1 and a complete quiz holds exactly n answers, n being the
\* number of sampled questions.
C17_NextAndFinishGuarded ==
    /\ [](Has(session_state, "quiz_state")
            => LET st == session_state["quiz_state"]
               IN  /\ st.current_question \in 0..(Len(st.questions) - 1)
                   /\ st.quiz_complete => Len(st.answers) = Len(st.questions))
    /\ [][ (Has(session_state, "quiz_state") /\ Has(session_state', "quiz_state"))
           => LET st == session_state["quiz_state"]
                  st2 == session_state'["quiz_state"]
              IN  /\ st2.current_question # st.current_question
                        => /\ st.answer_submitted
                           /\ ~st.quiz_complete
                           /\ st.current_question + 1 < Len(st.questions)
                           /\ st2.current_question = st.current_question + 1
                  /\ (st2.quiz_complete /\ ~st.quiz_complete)
                        => /\ st.answer_submitted
                           /\ st.current_question = Len(st.questions) - 1
                  /\ st.quiz_complete => st2.quiz_complete ]_vars

\* C17's case: the quiz was finished from its last question
C17_FinishedOnLastQuestion ==
    /\ Has(session_state, "quiz_state")
    /\ LET st == session_state["quiz_state"]
       IN  /\ st.quiz_complete
           /\ st.current_question = Len(st.questions) - 1
           /\ Len(st.answers) = QuizSampleSize
           /\ st.answer_submitted

\* C18: a run of the quiz page in Answering state at which no time is left
\* submits the question with the option that was tentatively selected when
\* the run began (the first option if none was) and with remaining time 0: an
\* option chosen after the deadline is not recorded.
C18_DeadlineRecordsTentative ==
    [][ ( /\ QuizActive
          /\ ~session_state["quiz_state"].answer_submitted
          /\ now - session_state["quiz_state"].question_start_time >= QUIZ_TIMER_SEC
          /\ Has(session_state', "quiz_state")
          /\ session_state'["quiz_state"].answer_submitted )
        => LET st == session_state["quiz_state"]
               st2 == session_state'["quiz_state"]
               tentative == IF st.selected_answer = None
                            THEN CurrentQuestion(st).options[1]
                            ELSE st.selected_answer
               recorded == st2.answers[Len(st2.answers)]
           IN  /\ Len(st2.answers) = Len(st.answers) + 1
               /\ recorded.time_left = 0
               /\ recorded.user_answer = tentative ]_vars

\* C19: a step to the next quiz question raises the index by exactly one,
\* sets the question start time to the current time, so that the full
\* QUIZ_TIMER_SEC seconds are left, drops the tentative selection, clears the
\* submitted flag, and leaves the recorded answers and the sampled questions
\* as they were; the run that follows presets the first option of the new
\* question.
C19_NextQuestionEffect ==
    [][ /\ ( /\ Has(session_state, "quiz_state")
             /\ Has(session_state', "quiz_state")
             /\ session_state["quiz_state"].selected_answer = None
             /\ session_state' # session_state )
           => LET st2 == session_state'["quiz_state"]
              IN  st2.selected_answer = st2.questions[st2.current_question + 1].options[1]
        /\ ( /\ Has(session_state, "quiz_state")
          /\ Has(session_state', "quiz_state")
          /\ session_state'["quiz_state"].current_question
                 # session_state["quiz_state"].current_question )
        => LET st == session_state["quiz_state"]
               st2 == session_state'["quiz_state"]
           IN  /\ st2.current_question = st.current_question + 1
               /\ st2.question_start_time = now
               /\ QUIZ_TIMER_SEC - (now' - st2.question_start_time) = QUIZ_TIMER_SEC
               /\ st2.selected_answer = None
               /\ pending'
               /\ st2.answer_submitted = FALSE
               /\ st2.answers = st.answers
               /\ st2.questions = st.questions
               /\ st2.start_time = st.start_time
               /\ st2.quiz_complete = FALSE ]_vars

\* C19's case: the first question ran out of time with an option other than
\* the first selected, and the second question has just been opened with its
\* own countdown
C19_SecondQuestionOpened ==
    /\ Has(session_state, "quiz_state")
    /\ LET st == session_state["quiz_state"]
       IN  /\ st.current_question = 1
           /\ ~st.answer_submitted
           /\ Len(st.answers) = 1
           /\ st.answers[1].time_left = 0
           /\ st.answers[1].user_answer # st.questions[1].options[1]
           /\ st.question_start_time = now
           /\ st.question_start_time > st.start_time
           /\ st.selected_answer = st.questions[2].options[1]

\* C24: a failure of the write of leaderboard.json in the persistence step of
\* a game page does not end the run abnormally: once add_score has been
\* called for a finished session, the run has not crashed, the persisted flag
\* is set, and the persistence step, sink row included, has run once only.
C24_WriteFailureContained ==
    /\ ~crashed
    /\ (MissionSessionOver /\ session_io.add_score_calls >= 1)
          => /\ session_state["mission_state"].data_saved
             /\ session_io.add_score_calls = 1
    /\ (QuizSessionOver /\ session_io.add_score_calls >= 1)
          => /\ session_state["quiz_state"].data_saved
             /\ session_io.add_score_calls = 1

\* C26, as the specification states it: in every sink row of a completed quiz
\* session the fields total_questions, correct_answers and score hold the same
\* value, the session's count of correct answers.
C26_RowFieldsAllCorrectCount ==
    (QuizSessionOver /\ sink.Quiz_Game.rows # <<>>) =>
        LET st == session_state["quiz_state"]
        IN  \A i \in 1..Len(sink.Quiz_Game.rows) :
                LET row == sink.Quiz_Game.rows[i]
                IN  /\ row.total_questions = str(TrueFlags(st.answers))
                    /\ row.correct_answers = str(TrueFlags(st.answers))
                    /\ row.score = str(TrueFlags(st.answers))

\* C26, amended: in every sink row of a completed quiz session correct_answers
\* and score hold the session's count of correct answers, and total_questions
\* holds the number of sampled questions.
C26_RowTotalIsQuestionCount ==
    (QuizSessionOver /\ sink.Quiz_Game.rows # <<>>) =>
        LET st == session_state["quiz_state"]
        IN  \A i \in 1..Len(sink.Quiz_Game.rows) :
                LET row == sink.Quiz_Game.rows[i]
                IN  /\ row.total_questions = str(Len(st.questions))
                    /\ Len(row.question_ids) = Len(st.questions)
                    /\ row.correct_answers = str(TrueFlags(st.answers))
                    /\ row.score = str(TrueFlags(st.answers))

\* C26's case: the row of a quiz with one answer right out of three was written
C26_OneOfThreeRowWritten ==
    /\ QuizSessionOver
    /\ sink.Quiz_Game.rows # <<>>
    /\ TrueFlags(session_state["quiz_state"].answers) = 1
    /\ sink.Quiz_Game.rows[1].score = <<1>>
    /\ sink.Quiz_Game.rows[1].total_questions = <<3>>

\* C27: a mission session that is Completed stays Completed, and its selected
\* sequence, mission and options, and its score once the results branch has
\* graded it, are the same after every step that does not discard the
\* session state.
C27_CompletedMissionFrozen ==
    [][ (MissionSessionOver /\ Has(session_state', "mission_state"))
        => LET st == session_state["mission_state"]
               st2 == session_state'["mission_state"]
           IN  /\ st2.game_over
               /\ st2.selected_sequence = st.selected_sequence
               /\ st2.mission_name = st.mission_name
               /\ st2.mission = st.mission
               /\ st2.options = st.options
               /\ MissionResultsDrawn => st2.score = st.score ]_vars

\* C27's case: a mission completed in canonical order was drawn a second
\* time, the first run of its results branch having failed, and still has
\* its six steps and score 1
C27_CompletedDrawnAgain ==
    /\ MissionSessionOver
    /\ session_io.add_score_calls = 2
    /\ LET st == session_state["mission_state"]
       IN  /\ st.score = 1
           /\ st.selected_sequence = st.mission.steps_correct
           /\ st.data_saved

\* C28: a step that empties a non-empty selected sequence of a session starts
\* from Selecting state with time remaining, and leaves the mission, the
\* order of the options, the start time, the completion flag and the
\* persisted flag as they were.
C28_ResetOrderEffect ==
    [][ ( /\ Has(session_state, "mission_state")
          /\ Has(session_state', "mission_state")
          /\ session_state["mission_state"].selected_sequence # <<>>
          /\ session_state'["mission_state"].selected_sequence = <<>> )
        => LET st == session_state["mission_state"]
               st2 == session_state'["mission_state"]
           IN  /\ ~st.game_over
               /\ MISSION_TIMER_SEC - (now - st.start_time) > 0
               /\ st2.mission_name = st.mission_name
               /\ st2.mission = st.mission
               /\ st2.options = st.options
               /\ st2.start_time = st.start_time
               /\ st2.game_over = st.game_over
               /\ st2.data_saved = st.data_saved
               /\ st2.score = st.score
               /\ now' = now ]_vars

\* C28's case: the order was reset after part of the time had gone, and the
\* countdown still runs from the start of the session
C28_ResetWithTimeGone ==
    /\ MissionSelecting
    /\ last_call.op = "reset"
    /\ session_state["mission_state"].selected_sequence = <<>>
    /\ now > session_state["mission_state"].start_time

----------------------------------------------------------------------------
(* The mission page while it keeps being rendered, under SpecMission: the   *)
(* clock advances while the countdown is shown and the page is rerun when a *)
(* rerun would change something                                             *)

NextMission ==
    \/ \E form \in GameForms : HubSubmit(form)
    \/ HubRerender
    \/ HubPlayMission
    \/ MissionRerender
    \/ MissionResetOrder
    \/ \E i \in 1..StepsPerMission : MissionSelectStep(i)
    \/ Tick

SpecMission ==
    /\ Init
    /\ [][NextMission]_vars
    /\ WF_vars(Tick)
    /\ WF_vars(MissionRerender)

\* C14: a run of the mission page in Selecting state at which no time is left
\* ends the mission whatever number of steps is selected, and every mission
\* session in Selecting state eventually is Completed.
C14_DeadlineCompletesMission ==
    /\ [][ ( /\ MissionSelecting
             /\ now - session_state["mission_state"].start_time >= MISSION_TIMER_SEC
             /\ session_state' # session_state )
           => /\ Has(session_state', "mission_state")
              /\ session_state'["mission_state"].game_over ]_vars
    /\ (MissionSelecting
          ~> (Has(session_state, "mission_state")
                /\ session_state["mission_state"].game_over))

\* C14's case: the deadline ended a mission of which two steps were selected
C14_EndedWithTwoSteps ==
    /\ script = "mission"
    /\ Has(session_state, "mission_state")
    /\ LET st == session_state["mission_state"]
       IN  /\ st.game_over
           /\ Len(st.selected_sequence) = 2
           /\ now - st.start_time >= MISSION_TIMER_SEC

----------------------------------------------------------------------------
(* Games played one after the other, under SpecReplay: up to ReplayGames    *)
(* game sessions are created, the buttons of the results screens included,  *)
(* with the first ReplaySteps step buttons and the first ReplayOptions      *)
(* radio options in use and every write of leaderboard.json succeeding      *)

\* How many game sessions are created
ReplayGames == 2
\* How many of the step buttons are clicked
ReplaySteps == 2
\* How many of the radio options are chosen
ReplayOptions == 2

InitReplay ==
    /\ script = "hub"
    /\ session_state = [k \in {"page", "user"} |-> IF k = "page" THEN "form" ELSE None]
    /\ now = 0
    /\ lb_file = FileMissing
    /\ sink = EmptySink
    /\ sheet = <<>>
    /\ board = NoBoard
    /\ crashed = FALSE
    /\ pending = FALSE
    /\ last_call = NoCall
    /\ writers = NoWriters
    /\ session_io = [NoSessionIo(ReplayGames) EXCEPT !.write_faults = MaxWriteFaults]

NextReplay ==
    \/ \E form \in GameForms : HubSubmit(form)
    \/ HubPlayMission
    \/ HubPlayQuiz
    \/ HubBackToMenu
    \/ HubRerender
    \/ MissionRerender
    \/ MissionResetOrder
    \/ \E i \in 1..ReplaySteps : MissionSelectStep(i)
    \/ MissionMainMenu
    \/ MissionLeaderboard
    \/ MissionPlayAgain
    \/ MissionTryQuiz
    \/ QuizRerender
    \/ \E i \in 1..ReplayOptions : QuizSelect(i)
    \/ QuizSubmit
    \/ QuizNext
    \/ QuizFinish
    \/ QuizMainMenu
    \/ QuizLeaderboard
    \/ QuizPlayAgain
    \/ QuizTryMission
    \/ Tick

SpecReplay == InitReplay /\ [][NextReplay]_vars

ReplayStateKeys == {"mission_state", "quiz_state"}

\* The session of state st is at its results screen
SessionFinished(k, st) ==
    IF k = "mission_state" THEN st.game_over ELSE st.quiz_complete

\* st and st2 are states of one session: what was drawn at its creation is the same
SameSession(k, st, st2) ==
    IF k = "mission_state"
    THEN /\ st2.mission_name = st.mission_name
         /\ st2.mission = st.mission
         /\ st2.options = st.options
         /\ st2.start_time = st.start_time
    ELSE /\ st2.questions = st.questions
         /\ st2.start_time = st.start_time

\* st is the state of a session created at time t and not yet played
FreshSession(k, st, t) ==
    IF k = "mission_state"
    THEN /\ st.selected_sequence = <<>>
         /\ st.game_over = FALSE
         /\ st.data_saved = FALSE
         /\ st.score = 0
         /\ st.start_time = t
    ELSE /\ st.answers = <<>>
         /\ st.current_question = 0
         /\ st.answer_submitted = FALSE
         /\ st.quiz_complete = FALSE
         /\ st.data_saved = FALSE
         /\ st.start_time = t
         /\ st.question_start_time = t

\* The script that keeps the state of key k
PageOf(k) == IF k = "mission_state" THEN "mission" ELSE "quiz"

\* C20: a game state is created only by a run of its page that finds none,
\* and is fresh: nothing selected or answered, not complete, not saved; a
\* step that keeps the state keeps its mission, options and start time (its
\* sampled questions and start time), and a finished session stays finished;
\* the state is removed only from the results screen of a finished session,
\* by a button whose run leaves the next run pending, and every such button
\* that leaves for another page removes it.
C20_SessionCreatedOnce ==
    [][ \A k \in ReplayStateKeys :
          /\ (Has(session_state, k) /\ Has(session_state', k))
                => /\ SameSession(k, session_state[k], session_state'[k])
                   /\ SessionFinished(k, session_state[k])
                         => SessionFinished(k, session_state'[k])
                   /\ session_io'.games_left = session_io.games_left
          /\ (Has(session_state, k) /\ ~Has(session_state', k))
                => /\ SessionFinished(k, session_state[k])
                   /\ script = PageOf(k)
                   /\ ~pending
                   /\ pending'
          /\ (Has(session_state, k) /\ script' # script) => ~Has(session_state', k)
          /\ (~Has(session_state, k) /\ Has(session_state', k))
                => /\ FreshSession(k, session_state'[k], now)
                   /\ script = PageOf(k)
                   /\ script' = script
                   /\ ~pending'
                   /\ session_io'.games_left = session_io.games_left - 1
      ]_vars

\* C20's case: after a mission that was finished and saved, a second mission
\* session has been created at a later time and is still untouched
C20_SecondSessionFresh ==
    /\ script = "mission"
    /\ Has(session_state, "mission_state")
    /\ session_io.games_left = 0
    /\ Len(StoredEntries("mission_game")) = 1
    /\ FreshSession("mission_state", session_state["mission_state"], now)
    /\ now > 0

----------------------------------------------------------------------------
(* The app with the page links of the sidebar, under SpecNav: Streamlit     *)
(* lists streamlit_app.py and the scripts of pages/ in the sidebar, which   *)
(* the hub only collapses, so every script can be opened at any time with   *)
(* the session state as it is                                               *)

\* The sidebar link of streamlit_app.py
SidebarToHub ==
    /\ script # "hub"
    /\ Idle
    /\ HubRun(session_state)
    /\ script' = "hub"
    /\ Frame

\* The sidebar link of pages/mission_game.py
SidebarToMission ==
    /\ script # "mission"
    /\ Idle
    /\ MissionRun(session_state)
    /\ script' = "mission"
    /\ Frame

\* The sidebar link of pages/quiz_game.py
SidebarToQuiz ==
    /\ script # "quiz"
    /\ Idle
    /\ QuizRun(session_state)
    /\ script' = "quiz"
    /\ Frame

\* Go to Main App, the button a game page shows when there is no game_user
GoToMainApp ==
    /\ script \in {"mission", "quiz"}
    /\ Idle
    /\ ~Has(session_state, "game_user")
    /\ Rerun(session_state)
    /\ script' = "hub"
    /\ Frame

\* The forms submitted under SpecNav: two cadets, with and without consent
NavForms ==
    GameForms \cup
        { [name |-> <<"L", "i">>, email |-> <<"l", "@", "b">>, branch |-> <<"M", "E">>,
           agree |-> TRUE] }

\* How many game sessions are created under SpecNav
NavGames == 1

InitNav ==
    /\ script = "hub"
    /\ session_state = [k \in {"page", "user"} |-> IF k = "page" THEN "form" ELSE None]
    /\ now = 0
    /\ lb_file = FileMissing
    /\ sink = EmptySink
    /\ sheet = <<>>
    /\ board = NoBoard
    /\ crashed = FALSE
    /\ pending = FALSE
    /\ last_call = NoCall
    /\ writers = NoWriters
    /\ session_io = [NoSessionIo(NavGames) EXCEPT !.write_faults = MaxWriteFaults]

NextNav ==
    \/ \E form \in NavForms : HubSubmit(form)
    \/ HubPlayMission
    \/ HubPlayQuiz
    \/ HubViewLeaderboard
    \/ HubNewRegistration
    \/ HubBackToMenu
    \/ HubRerender
    \/ MissionRerender
    \/ MissionResetOrder
    \/ \E i \in 1..ReplaySteps : MissionSelectStep(i)
    \/ MissionMainMenu
    \/ MissionLeaderboard
    \/ QuizRerender
    \/ \E i \in 1..ReplayOptions : QuizSelect(i)
    \/ QuizSubmit
    \/ QuizNext
    \/ QuizFinish
    \/ QuizMainMenu
    \/ QuizLeaderboard
    \/ SidebarToHub
    \/ SidebarToMission
    \/ SidebarToQuiz
    \/ GoToMainApp
    \/ Tick

SpecNav == InitNav /\ [][NextNav]_vars

\* C21: after New Registration is pressed on the menu the page is form, user
\* is None, game_user is absent, and the session holds neither a mission state
\* nor a quiz state.
C21_NewRegistrationClearsAll ==
    [][ ( /\ script = "hub"
          /\ session_state["page"] = "menu"
          /\ session_state'["page"] = "form" )
        => /\ script' = "hub"
           /\ session_state'["user"] = None
           /\ ~Has(session_state', "game_user")
           /\ ~Has(session_state', "mission_state")
           /\ ~Has(session_state', "quiz_state") ]_vars

----------------------------------------------------------------------------
(* Two browser sessions inside add_score at once, under SpecRace: the load, *)
(* the open() that truncates the file and the dump through the open handle  *)
(* are steps of their own, and the steps of the two sessions interleave.    *)
(* Every write goes through.                                                *)

RaceSessions == {"a", "b"}

\* The name session s plays under
RaceName(s) == IF s = "a" THEN <<"A", "s", "h", "a">> ELSE <<"L", "i">>

\* The entry session s adds
RaceEntry(s) == LeaderboardEntry(RaceName(s), <<"B">>, <<"N">>, 1, now)

\* Characters of the stamp "%Y-%m-%d %H:%M:%S"
StampWidth == 19

KeyWidth(k) == IF k = "mission_game" THEN 12 ELSE 9

\* Characters json.dump(entry, indent=2) writes for an entry two levels deep:
\* five lines '      "field": value', four ",\n", the braces and the closing
\* indentation
EntrySize(e) ==
    LET fields == (6 + 6 + 2 + Len(e.name) + 2) + (6 + 8 + 2 + Len(e.branch) + 2)
                    + (6 + 10 + 2 + Len(e.nickname) + 2) + (6 + 7 + 2 + Len(str(e.score)))
                    + (6 + 6 + 2 + StampWidth + 2)
    IN  2 + fields + 8 + 6

RECURSIVE EntriesSize(_)
EntriesSize(entries) ==
    IF entries = <<>> THEN 0 ELSE 4 + EntrySize(Head(entries)) + EntriesSize(Tail(entries))

\* Characters written for a list one level deep
ListSize(entries) ==
    IF entries = <<>> THEN 2
    ELSE 2 + EntriesSize(entries) + 2 * (Len(entries) - 1) + 4

\* Characters json.dump(data, f, indent=2) writes for a mapping from game key
\* to a list of entries
JsonSize(data) ==
    LET keys == DOMAIN data.items
        item(k) == IF k \in keys
                   THEN 2 + KeyWidth(k) + 2 + 2 + ListSize(data.items[k].elems) ELSE 0
    IN  IF keys = {} THEN 2
        ELSE 2 + item("mission_game") + item("quiz_game")
               + 2 * (Cardinality(keys) - 1) + 2

InitRace ==
    /\ script = "hub"
    /\ session_state = [page |-> "form", user |-> None]
    /\ now = 0
    /\ lb_file \in {f \in StoreFiles : f = FileMissing \/ ProperMapping(f)}
    /\ sink = EmptySink
    /\ sheet = <<>>
    /\ board = NoBoard
    /\ crashed = FALSE
    /\ pending = FALSE
    /\ last_call = NoCall
    /\ session_io = [NoSessionIo(0) EXCEPT !.write_faults = MaxWriteFaults]
    /\ writers = [at |-> [s \in RaceSessions |-> [pc |-> "idle"]], log |-> <<>>]

\* data = load_leaderboard() of add_score(game_key, ...) in session s
RaceLoad(s, game_key) ==
    /\ writers.at[s].pc = "idle"
    /\ writers' = [at |-> [writers.at EXCEPT ![s] =
                              [pc |-> "loaded", game_key |-> game_key,
                               data |-> load_leaderboard(lb_file)]],
                   log |-> Append(writers.log, [op |-> "load", session |-> s])]
    /\ UNCHANGED <<script, session_state, now, lb_file, sink, sheet, board, crashed, pending,
                   last_call, session_io>>

\* data.setdefault(game_key, []).append(entry) on the document loaded before,
\* then open(LEADERBOARD_FILE, "w") of save_leaderboard(data) in session s:
\* the file is created or cut to no content, which json.load cannot parse
RaceOpen(s) ==
    /\ writers.at[s].pc = "loaded"
    /\ LET w == writers.at[s]
           slot == IF w.game_key \in DOMAIN w.data.items
                   THEN w.data.items[w.game_key] ELSE JsonList(<<>>)
           data == JsonDict(SetKey(w.data.items, w.game_key,
                                   JsonList(Append(slot.elems, RaceEntry(s)))))
       IN  writers' = [at |-> [writers.at EXCEPT ![s] =
                                  [w EXCEPT !.pc = "opened", !.data = data]],
                       log |-> Append(writers.log, [op |-> "open", session |-> s])]
    /\ lb_file' = FileUnparsable
    /\ UNCHANGED <<script, session_state, now, sink, sheet, board, crashed, pending,
                   last_call, session_io>>

\* What the file holds after `data` was written from position 0 through a
\* handle opened earlier: the handle does not cut the file again, so what
\* another handle wrote meanwhile stays behind the new text when it is longer.
\* (With two sessions a file that is unparsable at this point is the empty one.)
WrittenOver(file, data) ==
    IF file.kind = "json" /\ JsonSize(data) < JsonSize(file.value)
    THEN FileUnparsable
    ELSE FileJson(data)

\* json.dump(data, f, indent=2) and the close of the file in session s: the
\* text reaches the file when the handle is closed
RaceDump(s) ==
    /\ writers.at[s].pc = "opened"
    /\ lb_file' = WrittenOver(lb_file, writers.at[s].data)
    /\ writers' = [at |-> [writers.at EXCEPT ![s] = [@ EXCEPT !.pc = "done"]],
                   log |-> Append(writers.log, [op |-> "dump", session |-> s])]
    /\ UNCHANGED <<script, session_state, now, sink, sheet, board, crashed, pending,
                   last_call, session_io>>

NextRace ==
    \/ \E s \in RaceSessions, game_key \in GameKeys : RaceLoad(s, game_key)
    \/ \E s \in RaceSessions : RaceOpen(s)
    \/ \E s \in RaceSessions : RaceDump(s)

SpecRace == InitRace /\ [][NextRace]_vars

\* Entry e is somewhere in the stored document
Stored(e) == \E k \in GameKeys : InSeq(e, StoredEntries(k))

\* Both sessions have left add_score
RaceOver == \A s \in RaceSessions : writers.at[s].pc = "done"

\* Both sessions loaded the document before either began to save it
RaceOverlapped == writers.log[1].op = "load" /\ writers.log[2].op = "load"

\* One session left add_score before the other entered it
RaceApart == writers.log[3].op = "dump"

\* C23, as the specification states it: when two sessions have run add_score
\* so that both loaded the document before either saved, the stored document
\* is the last writer's (what it loaded with its entry appended) and the
\* other session's entry is missing; when the two runs did not overlap, both
\* entries are stored, the entry of the session that ran first before the
\* other's when they are in the same sequence.
C23_LastWriterWins ==
    (RaceOver /\ (RaceOverlapped \/ RaceApart))
        => LET last == writers.log[6].session
               first == CHOOSE s \in RaceSessions : s # last
               k == writers.at[last].game_key
           IN  /\ lb_file = FileJson(writers.at[last].data)
               /\ IF RaceOverlapped
                  THEN ~Stored(RaceEntry(first))
                  ELSE /\ Stored(RaceEntry(first))
                       /\ Stored(RaceEntry(last))
                       /\ writers.at[first].game_key = k
                            => /\ Len(StoredEntries(k)) >= 2
                               /\ StoredEntries(k)[Len(StoredEntries(k)) - 1]
                                      = RaceEntry(first)
                               /\ StoredEntries(k)[Len(StoredEntries(k))]
                                      = RaceEntry(last)

\* C29: the page is one of form, menu, leaderboard; on the menu and on the
\* leaderboard page a profile is stored; and game_user, when present, is the
\* stored profile.
C29_HubStateConsistent ==
    /\ session_state["page"] \in {"form", "menu", "leaderboard"}
    /\ session_state["page"] \in {"menu", "leaderboard"} => session_state["user"] # None
    /\ Has(session_state, "game_user")
          => session_state["game_user"] = session_state["user"]

\* C29's case: cadet Li has finished a mission and come to the leaderboard
\* page by the button of the results screen, game_user still in the session
C29_SecondCadetOnLeaderboard ==
    /\ script = "hub"
    /\ session_state["page"] = "leaderboard"
    /\ Has(session_state, "game_user")
    /\ session_state["game_user"].name = <<"L", "i">>
    /\ StoredEntries("mission_game") # <<>>

\* C30: a run of a game page with no game_user in the session neither
\* creates nor changes a mission state or a quiz state, and writes neither to
\* the sink nor to the leaderboard document.
C30_NoGameUserNoEffect ==
    [][ (script' \in {"mission", "quiz"} /\ ~Has(session_state', "game_user"))
        => /\ \A k \in {"mission_state", "quiz_state"} :
                 /\ Has(session_state', k) <=> Has(session_state, k)
                 /\ Has(session_state, k) => session_state'[k] = session_state[k]
           /\ sink' = sink
           /\ lb_file' = lb_file
           /\ session_io' = session_io ]_vars

\* C30's case: the mission page is open without game_user while the state of
\* a mission in progress, left behind by a New Registration, is in the session
C30_MissionPageWithoutUser ==
    /\ script = "mission"
    /\ ~Has(session_state, "game_user")
    /\ Has(session_state, "mission_state")
    /\ ~session_state["mission_state"].game_over
    /\ session_state["mission_state"].selected_sequence # <<>>

============================================================================
